---- MODULE Spec2Model ----
(***************************************************************************)
(* WhatsApp group keyword monitor (index.js): the scan coordinator          *)
(* (scanAllGroups), the batch scanner (processGroupBatch / processGroup),   *)
(* the conversation accessor (searchAndOpenGroup / extractRecentMessages),  *)
(* the keyword matcher with its dedup cache (findKeywordMatches) and the    *)
(* shutdown sequence (enhancedShutdown), as one state machine.              *)
(*                                                                         *)
(* JavaScript runs one thread: the code between two awaits is one atomic    *)
(* step.  Every action below is the code from one await to the next; the    *)
(* pc of a coroutine names the await it is suspended at.                    *)
(*                                                                         *)
(* Time is in milliseconds (Date.now()).  Texts, keywords and names are     *)
(* sequences of one-character strings.                                      *)
(***************************************************************************)
EXTENDS Integers, Sequences, FiniteSets, TLC

(***************************************************************************)
(* Bounds of the model                                                      *)
(***************************************************************************)
\* scan cycles that may be started in one run
MaxScans == 2
\* steps a scan may take between a shutdown request and the exit of the process
MaxOverlap == 1
\* evaluate calls of the matcher-only specification
MaxCalls == 3
MaxDays == 1
\* the largest maxRetries retryWithBackoff is called with
MaxAttempts == 3
\* the 'data' listeners process.stdin may come to have
MaxListeners == 2

(***************************************************************************)
(* Program constants                                                        *)
(***************************************************************************)
\* null of a numeric field
NULL == -1
\* null of scanState.lastSuccessfulGroup
NoGroup == "null"
batchSize == 3
\* 60 * 60 * 1000: the retention of processedMessages
OneHour == 3600000
\* Date.toDateString() changes every 24 hours
DayMs == 24 * OneHour
PrefixLen == 50
\* message.substring(0, 200) of a log line
LogTextLen == 200
\* retryWithBackoff(..., 2, 2000) around searchAndOpenGroup
OpenRetries == 2
OpenBaseDelay == 2000
\* let lastError; before any call has thrown
Undefined == "undefined"
\* wait(randomDelay(1000, 2000)) of extractRecentMessages, at its shortest
ExtractWait == 1000
\* the clock when the process starts: noon
StartNow == DayMs \div 2

\* config.js: the monitored conversations, by name
TARGET_GROUPS == << "G1", "G2", "G3", "G4" >>
NumGroups == Len(TARGET_GROUPS)

\* config.js: the keywords; "I" is one of the two bare-substring keywords
KW_vc == << "v", "c" >>
KW_ai == << "a", "i" >>
KW_I  == << "I" >>
KEYWORDS == << KW_vc, KW_ai, KW_I >>
BareKeywords == { << "i", "n", "s", "t", "a" >>, << "I" >> }

(***************************************************************************)
(* Characters: RegExp's \b and the i flag                                   *)
(***************************************************************************)
UpperCase == << "A","B","C","D","E","F","G","H","I","J","K","L","M",
                "N","O","P","Q","R","S","T","U","V","W","X","Y","Z" >>
LowerCase == << "a","b","c","d","e","f","g","h","i","j","k","l","m",
                "n","o","p","q","r","s","t","u","v","w","x","y","z" >>
Digits == { "0","1","2","3","4","5","6","7","8","9" }

ToLower(c) ==
  IF \E k \in 1..26 : UpperCase[k] = c
    THEN LowerCase[CHOOSE k \in 1..26 : UpperCase[k] = c]
    ELSE c

\* \w of a JavaScript RegExp
IsWordChar(c) ==
  \/ \E k \in 1..26 : UpperCase[k] = c \/ LowerCase[k] = c
  \/ c \in Digits
  \/ c = "_"

\* \b at position p: between text[p-1] and text[p], the ends counting as non-word
WordBoundaryAt(text, p) ==
  LET before == p > 1 /\ IsWordChar(text[p - 1])
      after  == p <= Len(text) /\ IsWordChar(text[p])
  IN before # after

\* the keyword occurs at position p, compared without case
OccursAt(keyword, text, p) ==
  /\ p + Len(keyword) - 1 <= Len(text)
  /\ \A k \in 1..Len(keyword) : ToLower(text[p + k - 1]) = ToLower(keyword[k])

\* a regex built with word boundaries for every keyword
UseWordBoundariesAlways(keyword) == TRUE

\* const useWordBoundaries = !['insta', 'I'].includes(keyword)
UseWordBoundaries(keyword) == keyword \notin BareKeywords

\* regex.test(message.text) for the regex built from the keyword
RegexTest(keyword, text) ==
  \E p \in 1..Len(text) :
    /\ OccursAt(keyword, text, p)
    /\ UseWordBoundaries(keyword) =>
         /\ WordBoundaryAt(text, p)
         /\ WordBoundaryAt(text, p + Len(keyword))

Min(a, b) == IF a < b THEN a ELSE b

\* text.substring(0, 50)
Substring50(text) == SubSeq(text, 1, Min(Len(text), PrefixLen))

(***************************************************************************)
(* State                                                                    *)
(***************************************************************************)
VARIABLES
  now,                  \* Date.now()
  dom,                  \* the UI: the messages each conversation shows
  absent,               \* the UI: the conversations the search does not find
  broken,               \* the UI: the conversations whose page.evaluate throws
  retryCount,           \* startMonitoring: the failed attempts so far
  backoffDelays,        \* startMonitoring: the delays waited so far (observation only)
  fatal,                \* the uncaughtException / unhandledRejection handler began the shutdown
  diskOk,               \* whether fs.writeFile / fs.appendFile succeed
  cli,                  \* process.stdin: its 'data' listeners, and the handlers the latest line ran
  stateFile,            \* scan-state.json: <<>> or << content >>
  logFile,              \* LOG_FILE_PATH: the entries appended
  notifications,        \* notifier.notify calls of the latest cycle
  isShuttingDown,
  exited,               \* process.exit was called
  processedMessages,    \* Map messageId -> Date.now() of its first match
  dailySummary,
  isScanning,
  groupScanStatus,
  isPaused,
  lastScanTime,
  totalMatchesAllTime,
  currentScanProgress,
  scanErrors,
  scanState,
  scans,                \* the scanAllGroups invocations that are suspended at an await
  scansStarted,         \* scan cycles entered so far
  mainPc,               \* runMonitoringLoop
  timerArmed,           \* setInterval was called and not cleared
  shutdownPc,           \* enhancedShutdown
  flushes,              \* writeDailySummary calls whose appendFile is pending
  pendingWrite,         \* the text enhancedShutdown's saveScanState is writing
  hist,                 \* what the latest scan cycle did (observation only)
  evals,                \* the findKeywordMatches calls made (observation only)
  overlap,              \* scan steps taken since the shutdown request
  refusal               \* why the latest trigger started no scan (observation only)

vars == << now, dom, absent, broken, diskOk, cli, retryCount, backoffDelays, fatal, stateFile, logFile, notifications,
           isShuttingDown, exited, processedMessages, dailySummary, isScanning,
           groupScanStatus, isPaused, lastScanTime, totalMatchesAllTime,
           currentScanProgress, scanErrors, scanState, scans, scansStarted,
           mainPc, timerArmed, shutdownPc, flushes, pendingWrite, hist, evals,
           overlap, refusal >>

(***************************************************************************)
(* Matcher                                                                  *)
(***************************************************************************)
EmptyMap == [x \in {} |-> 0]

\* new Date().toDateString(), as a day number
DateString(t) == t \div DayMs

\* generateMessageId: `${groupName}-${sender}-${timestamp}-${text.substring(0, 50)}`
generateMessageId(groupName, sender, text, timestamp) ==
  << groupName, sender, timestamp, Substring50(text) >>

\* a matcher that never finds an id in the cache
AlreadyProcessedNever(pm, messageId) == FALSE

\* processedMessages.has(messageId)
AlreadyProcessed(pm, messageId) == messageId \in DOMAIN pm

\* a purge that also deletes the entries exactly one hour old
IsStaleAtOneHour(timestamp, nowT) == timestamp <= nowT - OneHour

\* timestamp < oneHourAgo
IsStale(timestamp, nowT) == timestamp < nowT - OneHour

\* a keyword loop body that counts a match in totalMatches and in no entry of
\* matches
MatchKeywordTotalOnly(st, message, keyword, nowT) ==
  LET messageId == generateMessageId(message.groupName, message.sender,
                                     message.text, message.timestamp)
  IN IF RegexTest(keyword, message.text) /\ ~AlreadyProcessed(st.pm, messageId)
       THEN [ pm |-> [id \in DOMAIN st.pm \cup {messageId} |->
                        IF id = messageId THEN nowT ELSE st.pm[id]],
              ds |-> [st.ds EXCEPT !.totalMatches = @ + 1],
              matches |-> Append(st.matches,
                                 [ groupName |-> message.groupName,
                                   sender |-> message.sender,
                                   text |-> message.text,
                                   timestamp |-> message.timestamp,
                                   matchedKeyword |-> keyword,
                                   messageId |-> messageId ]) ]
       ELSE st

\* the body of the keyword loop for one message and one keyword;
\* st = [pm, ds, matches]
MatchKeyword(st, message, keyword, nowT) ==
  LET messageId == generateMessageId(message.groupName, message.sender,
                                     message.text, message.timestamp)
      key == << message.groupName, keyword >>
      old == IF key \in DOMAIN st.ds.matches THEN st.ds.matches[key] ELSE 0
  IN IF RegexTest(keyword, message.text) /\ ~AlreadyProcessed(st.pm, messageId)
       THEN [ pm |-> [id \in DOMAIN st.pm \cup {messageId} |->
                        IF id = messageId THEN nowT ELSE st.pm[id]],
              ds |-> [ date |-> st.ds.date,
                       matches |-> [x \in DOMAIN st.ds.matches \cup {key} |->
                                      IF x = key THEN old + 1 ELSE st.ds.matches[x]],
                       totalMatches |-> st.ds.totalMatches + 1 ],
              matches |-> Append(st.matches,
                                 [ groupName |-> message.groupName,
                                   sender |-> message.sender,
                                   text |-> message.text,
                                   timestamp |-> message.timestamp,
                                   matchedKeyword |-> keyword,
                                   messageId |-> messageId ]) ]
       ELSE st

\* for (const keyword of KEYWORDS), from the k-th keyword on
RECURSIVE MatchKeywordsFrom(_, _, _, _)
MatchKeywordsFrom(st, message, k, nowT) ==
  IF k > Len(KEYWORDS) THEN st
  ELSE MatchKeywordsFrom(MatchKeyword(st, message, KEYWORDS[k], nowT),
                         message, k + 1, nowT)

\* for (const message of messages), from the n-th message on
RECURSIVE MatchMessagesFrom(_, _, _, _)
MatchMessagesFrom(st, messages, n, nowT) ==
  IF n > Len(messages) THEN st
  ELSE MatchMessagesFrom(MatchKeywordsFrom(st, messages[n], 1, nowT),
                         messages, n + 1, nowT)

\* the purge of processedMessages at the end of findKeywordMatches
PurgeOld(pm, nowT) ==
  [id \in {x \in DOMAIN pm : ~IsStale(pm[x], nowT)} |-> pm[id]]

\* findKeywordMatches(messages) at time nowT: the new processedMessages and
\* dailySummary and the matches returned
findKeywordMatches(messages, pm, ds, nowT) ==
  LET st == MatchMessagesFrom([pm |-> pm, ds |-> ds, matches |-> << >>],
                              messages, 1, nowT)
  IN [ pm |-> PurgeOld(st.pm, nowT), ds |-> st.ds, matches |-> st.matches ]

(***************************************************************************)
(* Accessor                                                                 *)
(***************************************************************************)
\* searchAndOpenGroup: what the UI did -> what the function does.  Every error
\* inside is caught and turned into false; the function never throws.
searchAndOpenGroup(ui) ==
  IF ui = "found" THEN [threw |-> FALSE, value |-> TRUE]
  ELSE [threw |-> FALSE, value |-> FALSE]

\* a wait that grows by baseDelay with every failed call
retryDelayLinear(baseDelay, i) == baseDelay * (i + 1)

\* const delay = baseDelay * Math.pow(2, i)
retryDelay(baseDelay, i) == baseDelay * 2 ^ i

\* retryWithBackoff(fn, maxRetries, baseDelay), given what each call of fn does:
\* the first call that does not throw ends the loop with its value; a call that
\* throws is followed by a wait; after the loop lastError is thrown.  events is
\* what happened, in order: a call of fn, its end, a wait.
RECURSIVE retryFrom(_, _, _, _, _, _)
retryFrom(tries, i, maxRetries, baseDelay, lastError, events) ==
  IF i >= maxRetries
    THEN [calls |-> i, threw |-> TRUE, value |-> FALSE, error |-> lastError,
          events |-> events]
  ELSE LET called == Append(events, [e |-> "call", n |-> i + 1])
       IN IF ~tries[i + 1].threw
            THEN [calls |-> i + 1, threw |-> FALSE, value |-> tries[i + 1].value,
                  error |-> Undefined,
                  events |-> Append(called, [e |-> "returned", n |-> i + 1])]
            ELSE retryFrom(tries, i + 1, maxRetries, baseDelay, tries[i + 1].error,
                           called \o << [e |-> "threw", n |-> i + 1],
                                        [e |-> "wait", n |-> retryDelay(baseDelay, i)] >>)

retryWithBackoff(tries, maxRetries, baseDelay) ==
  retryFrom(tries, 0, maxRetries, baseDelay, Undefined, << >>)

\* what the UI can answer to a search for the conversation
UiAnswers(groupName) ==
  IF groupName \in absent THEN {"missing", "error"} ELSE {"found"}

\* extractRecentMessages: the messages shown, each stamped new Date() of the
\* extraction; an error thrown inside is caught there and [] is returned
extractRecentMessages(groupName, nowT) ==
  IF groupName \in broken THEN << >> ELSE
  [n \in 1..Len(dom[groupName]) |->
     [ sender |-> dom[groupName][n].sender,
       text |-> dom[groupName][n].text,
       timestamp |-> nowT,
       groupName |-> groupName ]]

(***************************************************************************)
(* Notifications and log                                                    *)
(***************************************************************************)
\* the group names of the matches, in order of first appearance
RECURSIVE GroupOrder(_, _)
GroupOrder(matches, seen) ==
  IF matches = << >> THEN seen
  ELSE GroupOrder(Tail(matches),
                  IF \E n \in 1..Len(seen) : seen[n] = Head(matches).groupName
                    THEN seen ELSE Append(seen, Head(matches).groupName))

MatchesOf(matches, groupName) ==
  SelectSeq(matches, LAMBDA m : m.groupName = groupName)

\* a notification that previews every match of the group
sendUncappedNotifications(matches) ==
  LET order == GroupOrder(matches, << >>)
  IN [n \in 1..Len(order) |->
        LET groupMatches == MatchesOf(matches, order[n])
        IN [ groupName |-> order[n],
             matchCount |-> Len(groupMatches),
             displayMatches |-> groupMatches,
             more |-> IF Len(groupMatches) > 3 THEN Len(groupMatches) - 3 ELSE 0 ]]

\* sendBatchedNotifications: one notifier.notify per group
sendBatchedNotifications(matches) ==
  LET order == GroupOrder(matches, << >>)
  IN [n \in 1..Len(order) |->
        LET groupMatches == MatchesOf(matches, order[n])
        IN [ groupName |-> order[n],
             matchCount |-> Len(groupMatches),
             displayMatches |-> SubSeq(groupMatches, 1, Min(3, Len(groupMatches))),
             more |-> IF Len(groupMatches) > 3 THEN Len(groupMatches) - 3 ELSE 0 ]]

\* the line logMatch appends
LogEntry(match) ==
  [ kind |-> "match", groupName |-> match.groupName, sender |-> match.sender,
    keyword |-> match.matchedKeyword, timestamp |-> match.timestamp,
    message |-> SubSeq(match.text, 1, Min(Len(match.text), LogTextLen)) ]

\* the text writeDailySummary appends
SummaryText(ds) ==
  [ kind |-> "summary", date |-> ds.date, totalMatches |-> ds.totalMatches,
    matches |-> ds.matches ]

(***************************************************************************)
(* Coordinator: the synchronous code between awaits.                        *)
(* g is the record of the globals the scan writes, s the scanAllGroups      *)
(* invocation's locals; each operator returns [g, s] as the code leaves     *)
(* them at its next await.                                                  *)
(***************************************************************************)
Globals ==
  [ now |-> now, stateFile |-> stateFile, logFile |-> logFile,
    notifications |-> notifications, processedMessages |-> processedMessages,
    dailySummary |-> dailySummary, isScanning |-> isScanning,
    groupScanStatus |-> groupScanStatus, lastScanTime |-> lastScanTime,
    totalMatchesAllTime |-> totalMatchesAllTime,
    currentScanProgress |-> currentScanProgress, scanErrors |-> scanErrors,
    scanState |-> scanState, flushes |-> flushes, hist |-> hist, evals |-> evals ]

NewScan(src, startIndex) ==
  [ pc |-> "start", awaited |-> (src = "startup"), i |-> startIndex, j |-> 0,
    allMatches |-> << >>, batchResults |-> << >>, res |-> << >>,
    matches |-> << >>, k |-> 0, write |-> scanState ]

GroupAt(s) == TARGET_GROUPS[s.i + s.j + 1]

\* TARGET_GROUPS.slice(i, i + batchSize).length
BatchLen(i) == Min(batchSize, NumGroups - i)

\* saveScanState(): JSON.stringify(scanState) now, the file written at the await's end
WriteLands(file, text) == IF diskOk THEN << text >> ELSE file

\* an end of cycle that leaves lastProcessedIndex as the loop set it
AfterLoopKeepsIndex(g, s) ==
  LET ss == [g.scanState EXCEPT !.lastSuccessfulGroup = NoGroup]
  IN [ g |-> [g EXCEPT !.notifications =
                          IF s.allMatches # << >>
                            THEN sendBatchedNotifications(s.allMatches) ELSE @,
                       !.lastScanTime = g.now,
                       !.scanState = ss,
                       !.hist.ended = TRUE,
                       !.hist.stoppedAt = s.i ],
       s |-> [s EXCEPT !.pc = "saveFinal", !.write = ss] ]

\* the code after the batch loop of scanAllGroups, up to the last saveScanState
AfterLoop(g, s) ==
  LET ss == [g.scanState EXCEPT !.lastProcessedIndex = 0,
                                !.lastSuccessfulGroup = NoGroup]
  IN [ g |-> [g EXCEPT !.notifications =
                          IF s.allMatches # << >>
                            THEN sendBatchedNotifications(s.allMatches) ELSE @,
                       !.lastScanTime = g.now,
                       !.scanState = ss,
                       !.hist.ended = TRUE,
                       !.hist.stoppedAt = s.i ],
       s |-> [s EXCEPT !.pc = "saveFinal", !.write = ss] ]

\* a batch loop that records the index after the batch before processing it
LoopHeadCommitsAhead(g, s) ==
  IF s.i < NumGroups /\ ~isShuttingDown /\ ~isPaused
    THEN LET ss == [g.scanState EXCEPT !.lastProcessedIndex = s.i + batchSize]
         IN [ g |-> [g EXCEPT !.currentScanProgress = (s.i \div batchSize) + 1,
                              !.scanState = ss],
              s |-> [s EXCEPT !.pc = "saveBatch", !.write = ss,
                              !.j = 0, !.batchResults = << >>] ]
    ELSE AfterLoop(g, s)

\* a batch loop that goes on to the next batch while isPaused is set
LoopHeadIgnoresPause(g, s) ==
  IF s.i < NumGroups /\ ~isShuttingDown
    THEN LET ss == [g.scanState EXCEPT !.lastProcessedIndex = s.i]
         IN [ g |-> [g EXCEPT !.currentScanProgress = (s.i \div batchSize) + 1,
                              !.scanState = ss],
              s |-> [s EXCEPT !.pc = "saveBatch", !.write = ss,
                              !.j = 0, !.batchResults = << >>] ]
    ELSE AfterLoop(g, s)

\* the head of the batch loop: i < TARGET_GROUPS.length && !isShuttingDown && !isPaused
LoopHead(g, s) ==
  IF s.i < NumGroups /\ ~isShuttingDown /\ ~isPaused
    THEN LET ss == [g.scanState EXCEPT !.lastProcessedIndex = s.i]
         IN [ g |-> [g EXCEPT !.currentScanProgress = (s.i \div batchSize) + 1,
                              !.scanState = ss],
              s |-> [s EXCEPT !.pc = "saveBatch", !.write = ss,
                              !.j = 0, !.batchResults = << >>] ]
    ELSE AfterLoop(g, s)

\* a finally of processGroup that leaves the conversation marked
FinallyKeepsMark(g, s, res) ==
  [ g |-> g, s |-> [s EXCEPT !.pc = "clear1", !.res = res] ]

\* the finally of processGroup, up to its await clearSearch()
Finally(g, s, res) ==
  [ g |-> [g EXCEPT !.groupScanStatus[GroupAt(s)] = FALSE],
    s |-> [s EXCEPT !.pc = "clear1", !.res = res] ]

\* a processGroup that skips the conversation without recording the error
GroupNotFoundUnrecorded(g, s, name) ==
  Finally([g EXCEPT !.hist.notFound = Append(@, name)], s, << >>)

\* if (!groupFound): the error is recorded and processGroup returns [] through
\* its finally
GroupNotFound(g, s, name) ==
  Finally([g EXCEPT !.scanErrors = Append(@, << "Group not found", name >>),
                    !.hist.notFound = Append(@, name)],
          s, << >>)

\* a processGroup that does not look at the mark of the conversation
StartGroupIgnoresMark(g, s) ==
  [ g |-> [g EXCEPT !.groupScanStatus[GroupAt(s)] = TRUE],
    s |-> [s EXCEPT !.pc = "open"] ]

\* processGroup from its start to the await of the open
StartGroup(g, s) ==
  IF g.groupScanStatus[GroupAt(s)]
    THEN Finally([g EXCEPT !.hist.skipped = Append(@, GroupAt(s))], s, << >>)
    ELSE [ g |-> [g EXCEPT !.groupScanStatus[GroupAt(s)] = TRUE],
           s |-> [s EXCEPT !.pc = "open"] ]

\* the head of the loop of processGroupBatch
BatchLoop(g, s) ==
  IF s.j < BatchLen(s.i) THEN StartGroup(g, s)
  ELSE [ g |-> g, s |-> [s EXCEPT !.pc = "batchWait"] ]

\* writeDailySummary up to its await fs.appendFile: nothing when there is no match
writeDailySummary(g, by) ==
  IF g.dailySummary.totalMatches = 0 THEN g
  ELSE [g EXCEPT !.flushes = Append(@, [by |-> by, text |-> SummaryText(g.dailySummary)])]

\* checkDailySummary: writeDailySummary is called and not awaited
checkDailySummary(g) ==
  IF DateString(g.now) # g.dailySummary.date THEN writeDailySummary(g, "rollover")
  ELSE g

\* the dailySummary after a flush has been appended
FreshSummary(nowT) == [date |-> DateString(nowT), matches |-> EmptyMap, totalMatches |-> 0]

NewHist(cycle, startIndex, startedAt) ==
  [ cycle |-> cycle, startIndex |-> startIndex, startedAt |-> startedAt, opened |-> << >>,
    notFound |-> << >>, extracted |-> << >>, skipped |-> << >>, clears |-> 0,
    ended |-> FALSE, stoppedAt |-> NULL ]

\* guards that do not see the flags
ScanningUnseen == FALSE
PausedUnseen == FALSE

\* the reads of the flags that guard a scan
Scanning == isScanning
Paused == isPaused

\* a loop that always starts at the first conversation
StartIndexZero(ss) == 0

\* scanState.lastProcessedIndex || 0
StartIndex(ss) == IF ss.lastProcessedIndex = NULL THEN 0 ELSE ss.lastProcessedIndex

Apply(g) ==
  /\ now' = g.now
  /\ stateFile' = g.stateFile
  /\ logFile' = g.logFile
  /\ notifications' = g.notifications
  /\ processedMessages' = g.processedMessages
  /\ dailySummary' = g.dailySummary
  /\ isScanning' = g.isScanning
  /\ groupScanStatus' = g.groupScanStatus
  /\ lastScanTime' = g.lastScanTime
  /\ totalMatchesAllTime' = g.totalMatchesAllTime
  /\ currentScanProgress' = g.currentScanProgress
  /\ scanErrors' = g.scanErrors
  /\ scanState' = g.scanState
  /\ flushes' = g.flushes
  /\ hist' = g.hist
  /\ evals' = g.evals

\* the variables no scan step writes, process.stdin left aside
ScanFrameBesideCli ==
  /\ isShuttingDown => overlap < MaxOverlap
  /\ overlap' = IF isShuttingDown THEN overlap + 1 ELSE overlap
  /\ UNCHANGED << dom, absent, broken, diskOk, retryCount, backoffDelays, fatal, isShuttingDown, exited, isPaused,
                  shutdownPc, pendingWrite >>

\* the variables no scan step writes
ScanFrame == ScanFrameBesideCli /\ UNCHANGED cli

\* replace the k-th suspended invocation by s
Resume(k, s) == scans' = [scans EXCEPT ![k] = s]

(***************************************************************************)
(* scanAllGroups                                                            *)
(***************************************************************************)
\* n calls of scanAllGroups() made one after the other without an await in
\* between, each taken to its first await; a call that finds a scan in progress
\* or the pause flag set returns at once, so only the first call can start a
\* scan.  c is what the calls leave of process.stdin.
scanAllGroupsCalls(g, src, n, c) ==
  IF Scanning \/ Paused
    THEN /\ Apply(g)
         /\ mainPc' = IF src = "startup" THEN "loop" ELSE mainPc
         /\ timerArmed' = IF src = "startup" THEN TRUE ELSE timerArmed
         /\ refusal' = IF Scanning THEN "busy" ELSE "paused"
         /\ cli' = c
         /\ UNCHANGED << scans, scansStarted >>
         /\ ScanFrameBesideCli
    ELSE /\ scansStarted < MaxScans
         /\ LET g0 == [g EXCEPT
                         !.isScanning = TRUE,
                         !.scanErrors = << >>,
                         !.scanState.scanStartTime = g.now,
                         !.notifications = << >>,
                         !.hist = NewHist(scansStarted + 1, StartIndex(g.scanState), g.now)]
                r == LoopHead(checkDailySummary(g0),
                              NewScan(src, StartIndex(g.scanState)))
            IN /\ Apply(r.g)
               /\ scans' = Append(scans, r.s)
         /\ scansStarted' = scansStarted + 1
         /\ mainPc' = IF src = "startup" THEN "startupScan" ELSE mainPc
         /\ refusal' = IF n > 1 THEN "busy" ELSE "none"
         /\ cli' = c
         /\ UNCHANGED timerArmed
         /\ ScanFrameBesideCli

\* scanAllGroups() from its call to its first await; the call of
\* runMonitoringLoop comes after its setupCLI()
scanAllGroupsFrom(g, src) ==
  scanAllGroupsCalls(g, src, 1,
                     IF src = "startup" THEN [listeners |-> 1, handled |-> 0] ELSE cli)

scanAllGroups(src) == scanAllGroupsFrom(Globals, src)

\* await saveScanState() before a batch has ended: processGroupBatch starts
SaveBatchDone(k) ==
  /\ ~exited /\ k \in DOMAIN scans /\ scans[k].pc = "saveBatch"
  /\ LET g0 == [Globals EXCEPT !.stateFile = WriteLands(@, scans[k].write)]
         r == BatchLoop(g0, scans[k])
     IN Apply(r.g) /\ Resume(k, r.s)
  /\ UNCHANGED << scansStarted, mainPc, timerArmed, refusal >>
  /\ ScanFrame

\* await retryWithBackoff(() => searchAndOpenGroup(groupName), 2, 2000) has ended
OpenDone(k) ==
  /\ ~exited /\ k \in DOMAIN scans /\ scans[k].pc = "open"
  /\ \E ui \in [1..OpenRetries -> UiAnswers(GroupAt(scans[k]))] :
       LET s == scans[k]
           name == GroupAt(s)
           tries == [n \in 1..OpenRetries |-> searchAndOpenGroup(ui[n])]
           got == retryWithBackoff(tries, OpenRetries, OpenBaseDelay)
           g0 == [Globals EXCEPT
                    !.hist.opened = Append(@, [groupName |-> name, calls |-> got.calls,
                                               clears |-> hist.clears])]
           r == IF got.threw
                  THEN \* the catch of processGroup, then its finally
                       Finally([g0 EXCEPT !.scanErrors = Append(@, << "Processing error", name >>)],
                               s, << >>)
                ELSE IF ~got.value THEN GroupNotFound(g0, s, name)
                ELSE LET ss == [g0.scanState EXCEPT !.lastSuccessfulGroup = name]
                     IN [ g |-> [g0 EXCEPT !.scanState = ss],
                          s |-> [s EXCEPT !.pc = "saveGroup", !.write = ss] ]
       IN Apply(r.g) /\ Resume(k, r.s)
  /\ UNCHANGED << scansStarted, mainPc, timerArmed, refusal >>
  /\ ScanFrame

\* await saveScanState() after the open has ended: extractRecentMessages starts
SaveGroupDone(k) ==
  /\ ~exited /\ k \in DOMAIN scans /\ scans[k].pc = "saveGroup"
  /\ Apply([Globals EXCEPT !.stateFile = WriteLands(@, scans[k].write)])
  /\ Resume(k, [scans[k] EXCEPT !.pc = "extract"])
  /\ UNCHANGED << scansStarted, mainPc, timerArmed, refusal >>
  /\ ScanFrame

\* await extractRecentMessages(groupName) has ended; findKeywordMatches runs on
\* what it returned, and the first logMatch starts
ExtractDone(k) ==
  /\ ~exited /\ k \in DOMAIN scans /\ scans[k].pc = "extract"
  /\ LET s == scans[k]
         name == GroupAt(s)
         t == now + ExtractWait
         recentMessages == extractRecentMessages(name, t)
         g0 == [Globals EXCEPT !.now = t, !.hist.extracted = Append(@, name)]
         found == findKeywordMatches(recentMessages, processedMessages, dailySummary, t)
         g1 == [g0 EXCEPT
                  !.processedMessages = found.pm,
                  !.dailySummary = found.ds]
         r == IF recentMessages = << >> THEN Finally(g0, s, << >>)
              ELSE IF found.matches = << >> THEN Finally(g1, s, << >>)
              ELSE [ g |-> g1, s |-> [s EXCEPT !.pc = "log", !.matches = found.matches,
                                               !.k = 1] ]
     IN Apply(r.g) /\ Resume(k, r.s)
  /\ UNCHANGED << scansStarted, mainPc, timerArmed, refusal >>
  /\ ScanFrame

\* a logMatch whose failed append is not caught: the catch of processGroup
\* records the error and processGroup returns no match
LogDoneThrows(k) ==
  /\ ~exited /\ k \in DOMAIN scans /\ scans[k].pc = "log"
  /\ LET s == scans[k]
         g0 == [Globals EXCEPT
                  !.logFile = IF diskOk THEN Append(@, LogEntry(s.matches[s.k])) ELSE @]
         r == IF ~diskOk
                THEN Finally([g0 EXCEPT !.scanErrors =
                                Append(@, << "Processing error", GroupAt(s) >>)],
                             [s EXCEPT !.matches = << >>, !.k = 0], << >>)
              ELSE IF s.k < Len(s.matches)
                THEN [ g |-> g0, s |-> [s EXCEPT !.k = @ + 1] ]
                ELSE Finally(g0, [s EXCEPT !.matches = << >>, !.k = 0], s.matches)
     IN Apply(r.g) /\ Resume(k, r.s)
  /\ UNCHANGED << scansStarted, mainPc, timerArmed, refusal >>
  /\ ScanFrame

\* await logMatch(...) of the k-th match has ended
LogDone(k) ==
  /\ ~exited /\ k \in DOMAIN scans /\ scans[k].pc = "log"
  /\ LET s == scans[k]
         g0 == [Globals EXCEPT
                  !.logFile = IF diskOk THEN Append(@, LogEntry(s.matches[s.k])) ELSE @]
         r == IF s.k < Len(s.matches)
                THEN [ g |-> g0, s |-> [s EXCEPT !.k = @ + 1] ]
                ELSE Finally(g0, [s EXCEPT !.matches = << >>, !.k = 0], s.matches)
     IN Apply(r.g) /\ Resume(k, r.s)
  /\ UNCHANGED << scansStarted, mainPc, timerArmed, refusal >>
  /\ ScanFrame

\* a processGroup and a processGroupBatch that go on to the next conversation
\* without a clearSearch
Clear1Skipped(k) ==
  /\ ~exited /\ k \in DOMAIN scans /\ scans[k].pc = "clear1"
  /\ LET r == BatchLoop(Globals, [scans[k] EXCEPT !.batchResults = @ \o scans[k].res,
                                                  !.res = << >>,
                                                  !.j = @ + 1])
     IN Apply(r.g) /\ Resume(k, r.s)
  /\ UNCHANGED << scansStarted, mainPc, timerArmed, refusal >>
  /\ ScanFrame

\* await clearSearch() in the finally of processGroup has ended: processGroup
\* returns, and processGroupBatch starts its own clearSearch
Clear1Done(k) ==
  /\ ~exited /\ k \in DOMAIN scans /\ scans[k].pc = "clear1"
  /\ Resume(k, [scans[k] EXCEPT !.pc = "clear2",
                                !.batchResults = @ \o scans[k].res,
                                !.res = << >>])
  /\ Apply([Globals EXCEPT !.hist.clears = @ + 1])
  /\ UNCHANGED << scansStarted, mainPc, timerArmed, refusal >>
  /\ ScanFrame

\* await clearSearch(); await wait(...) of processGroupBatch have ended: next group
Clear2Done(k) ==
  /\ ~exited /\ k \in DOMAIN scans /\ scans[k].pc = "clear2"
  /\ LET r == BatchLoop([Globals EXCEPT !.hist.clears = @ + 1],
                        [scans[k] EXCEPT !.j = @ + 1])
     IN Apply(r.g) /\ Resume(k, r.s)
  /\ UNCHANGED << scansStarted, mainPc, timerArmed, refusal >>
  /\ ScanFrame

\* an end of batch that adds the matches of the whole cycle so far to the
\* session total
BatchWaitDoneRecounts(k) ==
  /\ ~exited /\ k \in DOMAIN scans /\ scans[k].pc = "batchWait"
  /\ LET s == scans[k]
         g0 == [Globals EXCEPT
                  !.totalMatchesAllTime = @ + Len(s.allMatches) + Len(s.batchResults)]
         r == LoopHead(g0, [s EXCEPT !.allMatches = @ \o s.batchResults,
                                     !.batchResults = << >>,
                                     !.i = @ + batchSize, !.j = 0])
     IN Apply(r.g) /\ Resume(k, r.s)
  /\ UNCHANGED << scansStarted, mainPc, timerArmed, refusal >>
  /\ ScanFrame

\* await wait(...) after the batch has ended: processGroupBatch returns
BatchWaitDone(k) ==
  /\ ~exited /\ k \in DOMAIN scans /\ scans[k].pc = "batchWait"
  /\ LET s == scans[k]
         g0 == [Globals EXCEPT
                  !.totalMatchesAllTime = @ + Len(s.batchResults)]
         r == LoopHead(g0, [s EXCEPT !.allMatches = @ \o s.batchResults,
                                     !.batchResults = << >>,
                                     !.i = @ + batchSize, !.j = 0])
     IN Apply(r.g) /\ Resume(k, r.s)
  /\ UNCHANGED << scansStarted, mainPc, timerArmed, refusal >>
  /\ ScanFrame

\* the sequence without its k-th element
RemoveAt(seq, k) == SubSeq(seq, 1, k - 1) \o SubSeq(seq, k + 1, Len(seq))

\* an end of scanAllGroups whose finally leaves isScanning set
SaveFinalKeepsScanning(k) ==
  /\ ~exited /\ k \in DOMAIN scans /\ scans[k].pc = "saveFinal"
  /\ Apply([Globals EXCEPT !.stateFile = WriteLands(@, scans[k].write),
                           !.currentScanProgress = NULL])
  /\ scans' = RemoveAt(scans, k)
  /\ IF scans[k].awaited
       THEN mainPc' = "loop" /\ timerArmed' = TRUE
       ELSE UNCHANGED << mainPc, timerArmed >>
  /\ UNCHANGED << scansStarted, refusal >>
  /\ ScanFrame

\* the last await saveScanState() has ended: the finally of scanAllGroups; the
\* startup scan returns to runMonitoringLoop, which calls setInterval
SaveFinalDone(k) ==
  /\ ~exited /\ k \in DOMAIN scans /\ scans[k].pc = "saveFinal"
  /\ Apply([Globals EXCEPT !.stateFile = WriteLands(@, scans[k].write),
                           !.isScanning = FALSE,
                           !.currentScanProgress = NULL])
  /\ scans' = RemoveAt(scans, k)
  /\ IF scans[k].awaited
       THEN mainPc' = "loop" /\ timerArmed' = TRUE
       ELSE UNCHANGED << mainPc, timerArmed >>
  /\ UNCHANGED << scansStarted, refusal >>
  /\ ScanFrame

(***************************************************************************)
(* runMonitoringLoop, the timer and the command line                        *)
(***************************************************************************)
\* loadScanState: Object.assign(scanState, savedState), nothing when there is no file
loadScanState(ss, file) == IF file = << >> THEN ss ELSE file[1]

\* await loadScanState() has ended; setupCLI(); the startup scan is called
LoadDone ==
  /\ ~exited /\ mainPc = "load"
  /\ scanAllGroupsFrom([Globals EXCEPT !.scanState = loadScanState(scanState, stateFile)],
                       "startup")

\* the while (!isShuttingDown) of runMonitoringLoop ends: clearInterval
MainLoopExit ==
  /\ ~exited /\ mainPc = "loop" /\ isShuttingDown
  /\ mainPc' = "done"
  /\ timerArmed' = FALSE
  /\ UNCHANGED << now, dom, absent, broken, diskOk, cli, retryCount, backoffDelays, fatal, stateFile, logFile, notifications,
                  isShuttingDown, exited, processedMessages, dailySummary, isScanning,
                  groupScanStatus, isPaused, lastScanTime, totalMatchesAllTime,
                  currentScanProgress, scanErrors, scanState, scans, scansStarted,
                  shutdownPc, flushes, pendingWrite, hist, evals, overlap, refusal >>

\* a trigger that calls nothing: only the reason is seen
Refuse(why) ==
  /\ refusal' = why
  /\ UNCHANGED << now, dom, absent, broken, diskOk, cli, retryCount, backoffDelays, fatal, stateFile, logFile, notifications,
                  isShuttingDown, exited, processedMessages, dailySummary, isScanning,
                  groupScanStatus, isPaused, lastScanTime, totalMatchesAllTime,
                  currentScanProgress, scanErrors, scanState, scans, scansStarted,
                  mainPc, timerArmed, shutdownPc, flushes, pendingWrite, hist, evals,
                  overlap >>

\* the callback of a timer created before the startup scan is awaited
TimerTickFromStart ==
  /\ ~exited /\ mainPc \in { "startupScan", "loop" }
  /\ IF ~isShuttingDown /\ ~Paused
       THEN scanAllGroups("timer")
       ELSE Refuse(IF Paused THEN "paused" ELSE refusal)

\* the setInterval callback
TimerTick ==
  /\ ~exited /\ timerArmed
  /\ IF ~isShuttingDown /\ ~Paused
       THEN scanAllGroups("timer")
       ELSE Refuse(IF Paused THEN "paused" ELSE refusal)

\* process.stdin 'data' is listened to once setupCLI has run
CliReady == mainPc \notin { "init", "backoff", "giveUp", "load" }

\* case 'scan'
CliScan ==
  /\ ~exited /\ CliReady
  /\ IF Paused THEN Refuse("paused")
     ELSE IF Scanning THEN Refuse("busy")
     ELSE scanAllGroups("cli")

\* case 'pause'
CliPause ==
  /\ ~exited /\ CliReady
  /\ isPaused' = TRUE
  /\ UNCHANGED << now, dom, absent, broken, diskOk, cli, retryCount, backoffDelays, fatal, stateFile, logFile, notifications,
                  isShuttingDown, exited, processedMessages, dailySummary, isScanning,
                  groupScanStatus, lastScanTime, totalMatchesAllTime,
                  currentScanProgress, scanErrors, scanState, scans, scansStarted,
                  mainPc, timerArmed, shutdownPc, flushes, pendingWrite, hist, evals, overlap, refusal >>

\* case 'resume'
CliResume ==
  /\ ~exited /\ CliReady
  /\ isPaused' = FALSE
  /\ UNCHANGED << now, dom, absent, broken, diskOk, cli, retryCount, backoffDelays, fatal, stateFile, logFile, notifications,
                  isShuttingDown, exited, processedMessages, dailySummary, isScanning,
                  groupScanStatus, lastScanTime, totalMatchesAllTime,
                  currentScanProgress, scanErrors, scanState, scans, scansStarted,
                  mainPc, timerArmed, shutdownPc, flushes, pendingWrite, hist, evals, overlap, refusal >>

(***************************************************************************)
(* Shutdown                                                                 *)
(***************************************************************************)
\* a shutdown that goes to saveScanState without writing the summary
ShutdownEntrySkipsSummary ==
  /\ isShuttingDown' = TRUE
  /\ pendingWrite' = << scanState >>
  /\ shutdownPc' = "save"
  /\ UNCHANGED flushes

\* what enhancedShutdown(signal) writes when no shutdown has begun
ShutdownEntry ==
  /\ isShuttingDown' = TRUE
  /\ IF dailySummary.totalMatches > 0
       THEN /\ flushes' = writeDailySummary(Globals, "shutdown").flushes
            /\ shutdownPc' = "daily"
            /\ UNCHANGED pendingWrite
       ELSE /\ pendingWrite' = << scanState >>
            /\ shutdownPc' = "save"
            /\ UNCHANGED flushes

\* a shutdown that does not test isShuttingDown
enhancedShutdownAgain ==
  /\ ShutdownEntry
  /\ UNCHANGED << now, dom, absent, broken, diskOk, cli, retryCount, backoffDelays, fatal,
                  stateFile, logFile, notifications, exited, processedMessages,
                  dailySummary, isScanning, groupScanStatus, isPaused, lastScanTime,
                  totalMatchesAllTime, currentScanProgress, scanErrors, scanState, scans,
                  scansStarted, mainPc, timerArmed, hist, evals, overlap, refusal >>

\* enhancedShutdown(signal) from its call to its first await
enhancedShutdown ==
  IF isShuttingDown THEN UNCHANGED vars
  ELSE /\ ShutdownEntry
       /\ UNCHANGED << now, dom, absent, broken, diskOk, cli, retryCount, backoffDelays, fatal, stateFile, logFile, notifications,
                       exited, processedMessages, dailySummary, isScanning,
                       groupScanStatus, isPaused, lastScanTime, totalMatchesAllTime,
                       currentScanProgress, scanErrors, scanState, scans, scansStarted,
                       mainPc, timerArmed, hist, evals, overlap, refusal >>

\* SIGINT, SIGTERM
Signal == ~exited /\ enhancedShutdown

\* case 'quit', 'exit'
CliQuit == ~exited /\ CliReady /\ enhancedShutdown

\* the fs.appendFile of a writeDailySummary has ended: the summary is reset when
\* the append succeeded; the one enhancedShutdown awaits lets it go on to saveScanState
FlushDone(n) ==
  /\ ~exited /\ n \in DOMAIN flushes
  /\ flushes' = RemoveAt(flushes, n)
  /\ logFile' = IF diskOk THEN Append(logFile, flushes[n].text) ELSE logFile
  /\ dailySummary' = IF diskOk THEN FreshSummary(now) ELSE dailySummary
  /\ IF flushes[n].by = "shutdown"
       THEN pendingWrite' = << scanState >> /\ shutdownPc' = "save"
       ELSE UNCHANGED << pendingWrite, shutdownPc >>
  /\ UNCHANGED << now, dom, absent, broken, diskOk, cli, retryCount, backoffDelays, fatal, stateFile, notifications,
                  isShuttingDown, exited, processedMessages, isScanning,
                  groupScanStatus, isPaused, lastScanTime, totalMatchesAllTime,
                  currentScanProgress, scanErrors, scanState, scans, scansStarted,
                  mainPc, timerArmed, hist, evals, overlap, refusal >>

\* await saveScanState() of enhancedShutdown has ended: page.close(), browser.close()
ShutdownSaveDone ==
  /\ ~exited /\ shutdownPc = "save"
  /\ stateFile' = WriteLands(stateFile, pendingWrite[1])
  /\ pendingWrite' = << >>
  /\ shutdownPc' = "close"
  /\ UNCHANGED << now, dom, absent, broken, diskOk, cli, retryCount, backoffDelays, fatal, logFile, notifications,
                  isShuttingDown, exited, processedMessages, dailySummary, isScanning,
                  groupScanStatus, isPaused, lastScanTime, totalMatchesAllTime,
                  currentScanProgress, scanErrors, scanState, scans, scansStarted,
                  mainPc, timerArmed, flushes, hist, evals, overlap, refusal >>

\* await page.close(); await browser.close() have ended: process.exit(0)
ShutdownCloseDone ==
  /\ ~exited /\ shutdownPc = "close"
  /\ exited' = TRUE
  /\ shutdownPc' = "exit"
  /\ UNCHANGED << now, dom, absent, broken, diskOk, cli, retryCount, backoffDelays, fatal, stateFile, logFile, notifications,
                  isShuttingDown, processedMessages, dailySummary, isScanning,
                  groupScanStatus, isPaused, lastScanTime, totalMatchesAllTime,
                  currentScanProgress, scanErrors, scanState, scans, scansStarted,
                  mainPc, timerArmed, flushes, pendingWrite, hist, evals, overlap, refusal >>

(***************************************************************************)
(* The program                                                              *)
(***************************************************************************)
Groups == { TARGET_GROUPS[n] : n \in 1..NumGroups }

T_vc_ai == << "v", "c", " ", "a", "i" >>
T_vc    == << "V", "C" >>

\* what one conversation can show
DomContents == { << >>, << [sender |-> "A", text |-> T_vc_ai] >> }

\* the conversations the UI does not find: none, or the second of the first batch
AbsentAtStart == { {}, {TARGET_GROUPS[2]} }

\* scan-state.json as an earlier run can have left it
PersistedAtStart ==
  { << >>,
    << [ lastProcessedIndex |-> batchSize, lastSuccessfulGroup |-> TARGET_GROUPS[batchSize],
         scanStartTime |-> StartNow - OneHour ] >> }

\* the module's variables, groupScanStatus left aside, as their declarations
\* leave them
DeclaredBesideMarks ==
  /\ logFile = << >>
  /\ notifications = << >>
  /\ isShuttingDown = FALSE
  /\ exited = FALSE
  /\ processedMessages = EmptyMap
  /\ dailySummary = FreshSummary(now)
  /\ isScanning = FALSE
  /\ isPaused = FALSE
  /\ lastScanTime = NULL
  /\ totalMatchesAllTime = 0
  /\ currentScanProgress = NULL
  /\ scanErrors = << >>
  /\ scanState = [lastProcessedIndex |-> 0, lastSuccessfulGroup |-> NoGroup,
                  scanStartTime |-> NULL]
  /\ scans = << >>
  /\ scansStarted = 0
  /\ timerArmed = FALSE
  /\ shutdownPc = "none"
  /\ flushes = << >>
  /\ pendingWrite = << >>
  /\ hist = NewHist(0, 0, NULL)
  /\ refusal = "none"
  /\ cli = [listeners |-> 0, handled |-> 0]
  /\ evals = [count |-> 0, calls |-> {}]
  /\ overlap = 0
  /\ retryCount = 0
  /\ backoffDelays = << >>
  /\ fatal = FALSE

\* the module's variables as their declarations leave them
AfterConstruction ==
  /\ DeclaredBesideMarks
  /\ groupScanStatus = [name \in Groups |-> FALSE]

\* the first initBrowser call of startMonitoring has returned
AtStart ==
  /\ AfterConstruction
  /\ mainPc = "load"

Init ==
  /\ now = StartNow
  /\ absent \in AbsentAtStart
  /\ broken = {}
  /\ \E shown \in DomContents :
       dom = [name \in Groups |-> IF name \in absent THEN << >> ELSE shown]
  /\ diskOk \in BOOLEAN
  /\ stateFile \in PersistedAtStart
  /\ AtStart

Next ==
  \/ LoadDone
  \/ MainLoopExit
  \/ TimerTick
  \/ CliScan
  \/ CliPause
  \/ CliResume
  \/ CliQuit
  \/ Signal
  \/ \E n \in 1..2 : FlushDone(n)
  \/ ShutdownSaveDone
  \/ ShutdownCloseDone
  \/ \E k \in 1..MaxScans :
       \/ SaveBatchDone(k)
       \/ OpenDone(k)
       \/ SaveGroupDone(k)
       \/ ExtractDone(k)
       \/ LogDone(k)
       \/ Clear1Done(k)
       \/ Clear2Done(k)
       \/ BatchWaitDone(k)
       \/ SaveFinalDone(k)

Spec == Init /\ [][Next]_vars

(***************************************************************************)
(* The program with a conversation whose extraction fails                   *)
(***************************************************************************)
\* the conversations whose page.evaluate throws: the last of the first batch
BrokenAtStart == { TARGET_GROUPS[batchSize] }

FaultInit ==
  /\ now = StartNow
  /\ absent \in AbsentAtStart
  /\ broken = BrokenAtStart
  /\ dom = [name \in Groups |->
              IF name \in absent THEN << >> ELSE << [sender |-> "A", text |-> T_vc_ai] >>]
  /\ diskOk \in BOOLEAN
  /\ stateFile = << >>
  /\ AtStart

FaultSpec == FaultInit /\ [][Next]_vars

(***************************************************************************)
(* The program with a notifier that can throw                               *)
(***************************************************************************)
\* await wait(...) after the last batch of the loop has ended and
\* notifier.notify throws inside sendBatchedNotifications, after n notifications
\* of the cycle: the catch and the finally of scanAllGroups, which returns
NotifyThrows(k) ==
  /\ ~exited /\ k \in DOMAIN scans /\ scans[k].pc = "batchWait"
  /\ LET s == scans[k]
         allMatches == s.allMatches \o s.batchResults
         i == s.i + batchSize
         all == sendBatchedNotifications(allMatches)
     IN /\ ~(i < NumGroups /\ ~isShuttingDown /\ ~isPaused)
        /\ allMatches # << >>
        /\ \E n \in 0..(Len(all) - 1) :
             Apply([Globals EXCEPT
                      !.totalMatchesAllTime = @ + Len(s.batchResults),
                      !.notifications = SubSeq(all, 1, n),
                      !.scanErrors = Append(@, << "Scan cycle error", NoGroup >>),
                      !.isScanning = FALSE,
                      !.currentScanProgress = NULL,
                      !.hist.ended = TRUE,
                      !.hist.stoppedAt = i])
  /\ scans' = RemoveAt(scans, k)
  /\ IF scans[k].awaited
       THEN mainPc' = "loop" /\ timerArmed' = TRUE
       ELSE UNCHANGED << mainPc, timerArmed >>
  /\ UNCHANGED << scansStarted, refusal >>
  /\ ScanFrame

\* one conversation list on the page, every conversation showing a match
ThrowInit ==
  /\ now = StartNow
  /\ absent = {}
  /\ broken = {}
  /\ dom = [name \in Groups |-> << [sender |-> "A", text |-> T_vc_ai] >>]
  /\ diskOk = TRUE
  /\ stateFile = << >>
  /\ AtStart

ThrowNext ==
  \/ \E k \in 1..MaxScans : NotifyThrows(k)
  \/ Next

ThrowSpec == ThrowInit /\ [][ThrowNext]_vars

(***************************************************************************)
(* The command line with the listeners setupCLI() adds                      *)
(***************************************************************************)
\* the lines entered: the commands, and one that is none
Commands == { "scan", "status", "pause", "resume", "quit", "exit", "help", "other" }

\* process.stdin emits 'data' with a line: every listener registered before the
\* emit runs its switch, one after the other, each up to its first await;
\* case 'help' calls setupCLI(), which registers one more listener
StdinLine(command) ==
  /\ ~exited /\ cli.listeners > 0
  /\ LET c == [cli EXCEPT !.handled = cli.listeners]
     IN CASE command = "scan" ->
               IF Paused \/ Scanning
                 THEN /\ cli' = c
                      /\ refusal' = IF Paused THEN "paused" ELSE "busy"
                      /\ UNCHANGED << now, dom, absent, broken, diskOk, retryCount,
                                   backoffDelays, fatal, stateFile, logFile,
                                   notifications, isShuttingDown, exited,
                                   processedMessages, dailySummary, isScanning,
                                   groupScanStatus, isPaused, lastScanTime,
                                   totalMatchesAllTime, currentScanProgress, scanErrors,
                                   scanState, scans, scansStarted, mainPc, timerArmed,
                                   shutdownPc, flushes, pendingWrite, hist, evals,
                                   overlap >>
                 ELSE scanAllGroupsCalls(Globals, "cli", cli.listeners, c)
          [] command = "pause" ->
               /\ cli' = c
               /\ isPaused' = TRUE
               /\ UNCHANGED << now, dom, absent, broken, diskOk, retryCount, backoffDelays,
                            fatal, stateFile, logFile, notifications, isShuttingDown,
                            exited, processedMessages, dailySummary, isScanning,
                            groupScanStatus, lastScanTime, totalMatchesAllTime,
                            currentScanProgress, scanErrors, scanState, scans,
                            scansStarted, mainPc, timerArmed, shutdownPc, flushes,
                            pendingWrite, hist, evals, overlap, refusal >>
          [] command = "resume" ->
               /\ cli' = c
               /\ isPaused' = FALSE
               /\ UNCHANGED << now, dom, absent, broken, diskOk, retryCount, backoffDelays,
                            fatal, stateFile, logFile, notifications, isShuttingDown,
                            exited, processedMessages, dailySummary, isScanning,
                            groupScanStatus, lastScanTime, totalMatchesAllTime,
                            currentScanProgress, scanErrors, scanState, scans,
                            scansStarted, mainPc, timerArmed, shutdownPc, flushes,
                            pendingWrite, hist, evals, overlap, refusal >>
          [] command \in { "quit", "exit" } ->
               /\ cli' = c
               /\ IF isShuttingDown
                    THEN UNCHANGED << isShuttingDown, shutdownPc, flushes, pendingWrite >>
                    ELSE ShutdownEntry
               /\ UNCHANGED << now, dom, absent, broken, diskOk, retryCount, backoffDelays,
                            fatal, stateFile, logFile, notifications, exited,
                            processedMessages, dailySummary, isScanning, groupScanStatus,
                            isPaused, lastScanTime, totalMatchesAllTime,
                            currentScanProgress, scanErrors, scanState, scans,
                            scansStarted, mainPc, timerArmed, hist, evals, overlap,
                            refusal >>
          [] command = "help" ->
               /\ 2 * cli.listeners <= MaxListeners
               /\ cli' = [listeners |-> 2 * cli.listeners, handled |-> cli.listeners]
               /\ UNCHANGED << now, dom, absent, broken, diskOk, retryCount, backoffDelays,
                            fatal, stateFile, logFile, notifications, isShuttingDown,
                            exited, processedMessages, dailySummary, isScanning,
                            groupScanStatus, isPaused, lastScanTime, totalMatchesAllTime,
                            currentScanProgress, scanErrors, scanState, scans,
                            scansStarted, mainPc, timerArmed, shutdownPc, flushes,
                            pendingWrite, hist, evals, overlap, refusal >>
          [] OTHER ->
               /\ cli' = c
               /\ UNCHANGED << now, dom, absent, broken, diskOk, retryCount, backoffDelays,
                            fatal, stateFile, logFile, notifications, isShuttingDown,
                            exited, processedMessages, dailySummary, isScanning,
                            groupScanStatus, isPaused, lastScanTime, totalMatchesAllTime,
                            currentScanProgress, scanErrors, scanState, scans,
                            scansStarted, mainPc, timerArmed, shutdownPc, flushes,
                            pendingWrite, hist, evals, overlap, refusal >>

\* one conversation list on the page, every conversation showing a match
CliInit ==
  /\ now = StartNow
  /\ absent = {}
  /\ broken = {}
  /\ dom = [name \in Groups |-> << [sender |-> "A", text |-> T_vc_ai] >>]
  /\ diskOk = TRUE
  /\ stateFile = << >>
  /\ AtStart

CliNext ==
  \/ \E command \in Commands : StdinLine(command)
  \/ Next

CliSpec == CliInit /\ [][CliNext]_vars

(***************************************************************************)
(* The program with a conversation that shows many matching messages        *)
(***************************************************************************)
\* the senders of the messages the first conversation shows
ManySenders == << "A", "B", "C", "D" >>

\* the first conversation shows four matching messages, the second one, the
\* third none, and the fourth is not found
ManyInit ==
  /\ now = StartNow
  /\ absent = { TARGET_GROUPS[NumGroups] }
  /\ broken = {}
  /\ dom = [name \in Groups |->
              IF name = TARGET_GROUPS[1]
                THEN [n \in 1..Len(ManySenders) |-> [sender |-> ManySenders[n], text |-> T_vc]]
              ELSE IF name = TARGET_GROUPS[2]
                THEN << [sender |-> "A", text |-> T_vc_ai] >>
              ELSE << >>]
  /\ diskOk = TRUE
  /\ stateFile = << >>
  /\ AtStart

ManySpec == ManyInit /\ [][Next]_vars

(***************************************************************************)
(* The program started with a conversation marked as being scanned          *)
(***************************************************************************)
\* groupScanStatus.set(name, true) for the second conversation before the scan
MarkedAtStart == TARGET_GROUPS[2]

MarkedInit ==
  /\ now = StartNow
  /\ absent = {}
  /\ broken = {}
  /\ dom = [name \in Groups |-> << [sender |-> "A", text |-> T_vc_ai] >>]
  /\ diskOk = TRUE
  /\ stateFile = << >>
  /\ DeclaredBesideMarks
  /\ groupScanStatus = [name \in Groups |-> name = MarkedAtStart]
  /\ mainPc = "load"

MarkedSpec == MarkedInit /\ [][Next]_vars

(***************************************************************************)
(* startMonitoring and the handlers of process-fatal events                 *)
(***************************************************************************)
maxRetries == 3
BaseBackoff == 5000

\* a wait of the same length after every failed attempt
backoffDelayFlat(count) == BaseBackoff

\* 5000 * Math.pow(2, retryCount - 1)
backoffDelay(count) == BaseBackoff * 2 ^ (count - 1)

\* while (!isShuttingDown && retryCount < maxRetries), as a position of startMonitoring
LoopEntry(count) == IF ~isShuttingDown /\ count < maxRetries THEN "init" ELSE "done"

\* await initBrowser() returns: runMonitoringLoop begins and awaits loadScanState
InitBrowserDone ==
  /\ mainPc = "init"
  /\ ~exited
  /\ mainPc' = "load"
  /\ UNCHANGED << now, dom, absent, broken, diskOk, cli, retryCount, backoffDelays, fatal,
                  stateFile, logFile, notifications, isShuttingDown, exited,
                  processedMessages, dailySummary, isScanning, groupScanStatus, isPaused,
                  lastScanTime, totalMatchesAllTime, currentScanProgress, scanErrors,
                  scanState, scans, scansStarted, timerArmed, shutdownPc, flushes,
                  pendingWrite, hist, evals, overlap, refusal >>

\* await initBrowser() throws: the catch block of startMonitoring up to its await
InitBrowserFailed ==
  /\ mainPc = "init"
  /\ ~exited
  /\ retryCount' = retryCount + 1
  /\ IF retryCount + 1 < maxRetries
       THEN /\ mainPc' = "backoff"
            /\ backoffDelays' = Append(backoffDelays, backoffDelay(retryCount + 1))
            /\ UNCHANGED << isShuttingDown, shutdownPc, flushes, pendingWrite >>
       ELSE /\ UNCHANGED backoffDelays
            /\ IF isShuttingDown
                 THEN /\ mainPc' = "done"
                      /\ UNCHANGED << isShuttingDown, shutdownPc, flushes, pendingWrite >>
                 ELSE /\ mainPc' = "giveUp"
                      /\ ShutdownEntry
  /\ UNCHANGED << now, dom, absent, broken, diskOk, cli, fatal, stateFile, logFile,
                  notifications, exited, processedMessages, dailySummary, isScanning,
                  groupScanStatus, isPaused, lastScanTime, totalMatchesAllTime,
                  currentScanProgress, scanErrors, scanState, scans, scansStarted,
                  timerArmed, hist, evals, overlap, refusal >>

\* the backoff timeout fires: back to the head of the while loop
BackoffDone ==
  /\ mainPc = "backoff"
  /\ ~exited
  /\ now' = now + backoffDelay(retryCount)
  /\ mainPc' = LoopEntry(retryCount)
  /\ UNCHANGED << dom, absent, broken, diskOk, cli, retryCount, backoffDelays, fatal,
                  stateFile, logFile, notifications, isShuttingDown, exited,
                  processedMessages, dailySummary, isScanning, groupScanStatus, isPaused,
                  lastScanTime, totalMatchesAllTime, currentScanProgress, scanErrors,
                  scanState, scans, scansStarted, timerArmed, shutdownPc, flushes,
                  pendingWrite, hist, evals, overlap, refusal >>

\* process.on('uncaughtException'), process.on('unhandledRejection')
FatalEvent ==
  /\ ~exited
  /\ IF isShuttingDown THEN UNCHANGED vars
     ELSE /\ ShutdownEntry
          /\ fatal' = TRUE
          /\ UNCHANGED << now, dom, absent, broken, diskOk, cli, retryCount, backoffDelays,
                          stateFile, logFile, notifications, exited, processedMessages,
                          dailySummary, isScanning, groupScanStatus, isPaused,
                          lastScanTime, totalMatchesAllTime, currentScanProgress,
                          scanErrors, scanState, scans, scansStarted, mainPc, timerArmed,
                          hist, evals, overlap, refusal >>

\* the program from the call of startMonitoring, one conversation list on the page
StartInit ==
  /\ now = StartNow
  /\ absent = {}
  /\ broken = {}
  /\ dom = [name \in Groups |-> << [sender |-> "A", text |-> T_vc_ai] >>]
  /\ diskOk = TRUE
  /\ stateFile = << >>
  /\ AfterConstruction
  /\ mainPc = "init"

StartNext ==
  \/ InitBrowserDone
  \/ InitBrowserFailed
  \/ BackoffDone
  \/ FatalEvent
  \/ Next

StartSpec == StartInit /\ [][StartNext]_vars

(***************************************************************************)
(* The program running over midnight                                        *)
(***************************************************************************)
\* the wall clock passes midnight while no scan is in progress
DayPasses ==
  /\ ~exited
  /\ ~isScanning /\ scans = << >>
  /\ DateString(now) - DateString(StartNow) < MaxDays
  /\ now' = now + DayMs
  /\ UNCHANGED << dom, absent, broken, diskOk, cli, retryCount, backoffDelays, fatal,
                  stateFile, logFile, notifications, isShuttingDown, exited,
                  processedMessages, dailySummary, isScanning, groupScanStatus, isPaused,
                  lastScanTime, totalMatchesAllTime, currentScanProgress, scanErrors,
                  scanState, scans, scansStarted, mainPc, timerArmed, shutdownPc, flushes,
                  pendingWrite, hist, evals, overlap, refusal >>

OvernightInit ==
  /\ now = StartNow
  /\ absent = {}
  /\ broken = {}
  /\ dom = [name \in Groups |-> << [sender |-> "A", text |-> T_vc_ai] >>]
  /\ diskOk = TRUE
  /\ stateFile = << >>
  /\ AtStart

OvernightNext == DayPasses \/ Next

OvernightSpec == OvernightInit /\ [][OvernightNext]_vars

(***************************************************************************)
(* The matcher alone: findKeywordMatches called on submitted messages       *)
(***************************************************************************)
RawTexts == { T_vc_ai, T_vc }

RawMessages ==
  { [ groupName |-> TARGET_GROUPS[1], sender |-> "A", text |-> t, timestamp |-> StartNow ] :
      t \in RawTexts }

\* the message lists submitted in one call
Submissions ==
  { << m >> : m \in RawMessages } \cup { << m, n >> : m \in RawMessages, n \in RawMessages }

\* the time between two calls
Elapsed == { OneHour \div 2, OneHour + 1 }

Evaluate ==
  /\ evals.count < MaxCalls
  /\ \E messages \in Submissions, d \in Elapsed :
       LET t == now + d
           found == findKeywordMatches(messages, processedMessages, dailySummary, t)
       IN /\ now' = t
          /\ processedMessages' = found.pm
          /\ dailySummary' = found.ds
          /\ evals' = [ count |-> evals.count + 1,
                        calls |-> evals.calls \cup
                          {[ call |-> evals.count + 1, at |-> t,
                             messages |-> messages, matches |-> found.matches ]} ]
  /\ UNCHANGED << dom, absent, broken, diskOk, cli, retryCount, backoffDelays, fatal, stateFile, logFile, notifications,
                  isShuttingDown, exited, isScanning, groupScanStatus, isPaused,
                  lastScanTime, totalMatchesAllTime, currentScanProgress, scanErrors,
                  scanState, scans, scansStarted, mainPc, timerArmed, shutdownPc,
                  flushes, pendingWrite, hist, overlap, refusal >>

MatcherInit ==
  /\ now = StartNow
  /\ absent = {}
  /\ broken = {}
  /\ dom = [name \in Groups |-> << >>]
  /\ diskOk = TRUE
  /\ stateFile = << >>
  /\ logFile = << >>
  /\ notifications = << >>
  /\ isShuttingDown = FALSE
  /\ exited = FALSE
  /\ processedMessages = EmptyMap
  /\ dailySummary = FreshSummary(StartNow)
  /\ isScanning = FALSE
  /\ groupScanStatus = [name \in Groups |-> FALSE]
  /\ isPaused = FALSE
  /\ lastScanTime = NULL
  /\ totalMatchesAllTime = 0
  /\ currentScanProgress = NULL
  /\ scanErrors = << >>
  /\ scanState = [lastProcessedIndex |-> 0, lastSuccessfulGroup |-> NoGroup,
                  scanStartTime |-> NULL]
  /\ scans = << >>
  /\ scansStarted = 0
  /\ mainPc = "load"
  /\ timerArmed = FALSE
  /\ shutdownPc = "none"
  /\ flushes = << >>
  /\ pendingWrite = << >>
  /\ hist = NewHist(0, 0, NULL)
  /\ evals = [count |-> 0, calls |-> {}]
  /\ overlap = 0
  /\ refusal = "none"
  /\ cli = [listeners |-> 0, handled |-> 0]
  /\ retryCount = 0
  /\ backoffDelays = << >>
  /\ fatal = FALSE

MatcherNext == Evaluate

MatcherSpec == MatcherInit /\ [][MatcherNext]_vars

(***************************************************************************)
(* The keyword test alone: the regex of findKeywordMatches on given texts    *)
(***************************************************************************)
KW_startup == << "s", "t", "a", "r", "t", "u", "p" >>
KW_insta == << "i", "n", "s", "t", "a" >>
KW_Insta == << "I", "n", "s", "t", "a" >>

T_startup == << "s", "t", "a", "r", "t", "u", "p" >>
T_startups == << "s", "t", "a", "r", "t", "u", "p", "s" >>
T_a_startup_idea == << "a", " ", "s", "t", "a", "r", "t", "u", "p", " ", "i", "d", "e", "a" >>
T_mystartup == << "m", "y", "s", "t", "a", "r", "t", "u", "p" >>
T_startuptime == << "s", "t", "a", "r", "t", "u", "p", "t", "i", "m", "e" >>
T_STARTUP == << "S", "T", "A", "R", "T", "U", "P" >>
T_Startups == << "S", "t", "a", "r", "t", "u", "p", "s" >>
T_MyStartup == << "M", "y", "S", "t", "a", "r", "t", "u", "p" >>
T_instagram == << "I", "n", "s", "t", "a", "g", "r", "a", "m" >>
T_myinsta == << "m", "y", "i", "n", "s", "t", "a" >>
T_insta == << "o", "n", " ", "i", "n", "s", "t", "a" >>
T_hi == << "h", "i" >>
T_svc == << "s", "v", "c" >>
T_no == << "n", "o" >>

TestKeywords == { KW_startup, KW_insta, KW_Insta, KW_I, KW_vc }
TestTexts == { T_startup, T_startups, T_a_startup_idea, T_mystartup,
              T_startuptime, T_STARTUP, T_Startups, T_MyStartup,
              T_instagram, T_myinsta, T_insta, T_hi,
              T_svc, T_no,
              T_vc_ai, T_vc }

\* one keyword of the loop over KEYWORDS is tested against one message text
TestKeyword ==
  /\ evals.count < MaxCalls
  /\ \E keyword \in TestKeywords, text \in TestTexts :
       evals' = [ count |-> evals.count + 1,
                  calls |-> {[ keyword |-> keyword, text |-> text,
                               test |-> RegexTest(keyword, text) ]} ]
  /\ UNCHANGED << now, dom, absent, broken, diskOk, cli, retryCount, backoffDelays, fatal,
                  stateFile, logFile, notifications, isShuttingDown, exited,
                  processedMessages, dailySummary, isScanning, groupScanStatus, isPaused,
                  lastScanTime, totalMatchesAllTime, currentScanProgress, scanErrors,
                  scanState, scans, scansStarted, mainPc, timerArmed, shutdownPc, flushes,
                  pendingWrite, hist, overlap, refusal >>

RegexInit ==
  /\ now = StartNow
  /\ absent = {}
  /\ broken = {}
  /\ dom = [name \in Groups |-> << >>]
  /\ diskOk = TRUE
  /\ stateFile = << >>
  /\ AtStart

RegexNext == TestKeyword

RegexSpec == RegexInit /\ [][RegexNext]_vars

(***************************************************************************)
(* retryWithBackoff on its own                                              *)
(***************************************************************************)
\* what one call of fn can do: return a value, or throw one of two errors
FnOutcomes ==
  { [threw |-> FALSE, value |-> TRUE, error |-> Undefined],
    [threw |-> FALSE, value |-> FALSE, error |-> Undefined],
    [threw |-> TRUE, value |-> FALSE, error |-> "E1"],
    [threw |-> TRUE, value |-> FALSE, error |-> "E2"] }

\* the baseDelay arguments: the default and the one of processGroup
RetryBases == { 1000, OpenBaseDelay }

\* one call of retryWithBackoff(fn, maxRetries, baseDelay) has ended
CallRetry ==
  /\ evals.count < MaxCalls
  /\ \E n \in 0..MaxAttempts, baseDelay \in RetryBases :
       \E tries \in [1..n -> FnOutcomes] :
         evals' = [ count |-> evals.count + 1,
                    calls |-> {[ maxRetries |-> n, baseDelay |-> baseDelay,
                                 tries |-> tries,
                                 result |-> retryWithBackoff(tries, n, baseDelay) ]} ]
  /\ UNCHANGED << now, dom, absent, broken, diskOk, cli, retryCount, backoffDelays, fatal,
                  stateFile, logFile, notifications, isShuttingDown, exited,
                  processedMessages, dailySummary, isScanning, groupScanStatus, isPaused,
                  lastScanTime, totalMatchesAllTime, currentScanProgress, scanErrors,
                  scanState, scans, scansStarted, mainPc, timerArmed, shutdownPc, flushes,
                  pendingWrite, hist, overlap, refusal >>

RetryInit == RegexInit

RetryNext == CallRetry

RetrySpec == RetryInit /\ [][RetryNext]_vars

(***************************************************************************)
(* Properties                                                               *)
(***************************************************************************)
\* position of a conversation in TARGET_GROUPS, from 0
GroupIndex(name) == (CHOOSE n \in 1..NumGroups : TARGET_GROUPS[n] = name) - 1

InSeq(x, seq) == \E n \in 1..Len(seq) : seq[n] = x

\* the step is a trigger other than the startup scan
TriggerStep == TimerTick \/ CliScan

\* C1: at most one scan cycle is in progress at any time, and a timer tick or
\* 'scan' command that arrives while a scan is in progress starts no scan and
\* makes no open or extract call: the suspended scan and the record of the
\* cycle's opens and extractions are as before.
C1_MutualExclusion ==
  [][ /\ Len(scans') <= 1
      /\ (isScanning /\ TriggerStep) =>
           UNCHANGED << scans, scansStarted, hist, isScanning, scanState, scanErrors >> ]_vars

C1_Witness ==
  /\ refusal = "busy"
  /\ Len(scans) = 1
  /\ hist.opened # << >>
  /\ ~isShuttingDown

\* the same raw message: conversation, sender, text and timestamp
SameMessage(a, b) ==
  /\ a.groupName = b.groupName
  /\ a.sender = b.sender
  /\ a.text = b.text
  /\ a.timestamp = b.timestamp

\* C2: once findKeywordMatches has emitted a MatchRecord for a message, the
\* same message (conversation, sender, text, timestamp) submitted again - later
\* in the same call, or in a later call at most one hour after - gets no
\* further MatchRecord.
C2_IdempotentDedup ==
  /\ \A c \in evals.calls :
       \A a, b \in 1..Len(c.matches) :
         SameMessage(c.matches[a], c.matches[b]) => a = b
  /\ \A c1, c2 \in evals.calls :
       (c1.call < c2.call /\ c2.at - c1.at <= OneHour) =>
         \A a \in 1..Len(c1.matches), b \in 1..Len(c2.matches) :
           ~SameMessage(c1.matches[a], c2.matches[b])

C2_Witness ==
  \E c1, c2 \in evals.calls :
    /\ c1.call < c2.call
    /\ c2.at - c1.at <= OneHour
    /\ c2.at > c1.at
    /\ c2.matches = << >>
    /\ \E a \in 1..Len(c1.matches), b \in 1..Len(c2.messages) :
         SameMessage(c1.matches[a], c2.messages[b])

\* the configured keywords whose regex matches the text
MatchingKeywords(text) == { k \in 1..Len(KEYWORDS) : RegexTest(KEYWORDS[k], text) }

\* the MatchRecords a call returned for the message
RecordsFor(c, m) == { n \in 1..Len(c.matches) : SameMessage(c.matches[n], m) }

\* C3: when the text of a not-yet-seen message matches k >= 2 configured
\* keywords, findKeywordMatches returns k MatchRecords for it, one per matching
\* keyword.  (The first call of a process starts with an empty cache, so every
\* message of it is not yet seen.)
C3_OneRecordPerKeyword ==
  \A c \in evals.calls :
    c.call = 1 =>
      \A n \in 1..Len(c.messages) :
        LET m == c.messages[n]
        IN Cardinality(MatchingKeywords(m.text)) >= 2 =>
             /\ Cardinality(RecordsFor(c, m)) = Cardinality(MatchingKeywords(m.text))
             /\ \A k \in MatchingKeywords(m.text) :
                  Cardinality({ r \in RecordsFor(c, m) :
                                  c.matches[r].matchedKeyword = KEYWORDS[k] }) = 1

\* C4: a message that stays visible and is extracted by two passes of one
\* process less than an hour apart has one fingerprint, and is logged for the
\* first pass only: the cache holds one id per (conversation, sender, text) and
\* the log no two lines for the same conversation, sender, keyword and text.
C4_DedupAcrossPasses ==
  /\ \A x, y \in DOMAIN processedMessages :
       (x[1] = y[1] /\ x[2] = y[2] /\ x[4] = y[4]) => x = y
  /\ \A a, b \in 1..Len(logFile) :
       ~ /\ a < b
         /\ logFile[a].kind = "match"
         /\ logFile[b].kind = "match"
         /\ logFile[a].groupName = logFile[b].groupName
         /\ logFile[a].sender = logFile[b].sender
         /\ logFile[a].keyword = logFile[b].keyword
         /\ logFile[a].message = logFile[b].message
         /\ logFile[b].timestamp - logFile[a].timestamp < OneHour

\* C5: the first cycle of a process that loaded a checkpoint starts its batch
\* loop at the checkpoint's lastProcessedIndex, and no cycle opens a
\* conversation whose index is below the index it started at.
C5_CheckpointResume ==
  [][ /\ (mainPc = "load" /\ mainPc' # "load" /\ stateFile # << >>) =>
           /\ hist'.startIndex = stateFile[1].lastProcessedIndex
           /\ Len(scans') = 1
           /\ scans'[1].i = stateFile[1].lastProcessedIndex
      /\ \A n \in 1..Len(hist'.opened) :
           GroupIndex(hist'.opened[n].groupName) >= hist'.startIndex ]_vars

C5_Witness ==
  /\ hist.cycle = 1
  /\ hist.startIndex = batchSize
  /\ hist.ended
  /\ Len(hist.opened) = NumGroups - batchSize
  /\ hist.opened[1].groupName = TARGET_GROUPS[batchSize + 1]

\* a cycle that ran through every batch has returned
CleanlyCompleted ==
  scans = << >> /\ hist.cycle > 0 /\ hist.ended /\ hist.stoppedAt >= NumGroups

\* the checkpoint with all three fields reset
ResetState == [lastProcessedIndex |-> 0, lastSuccessfulGroup |-> NoGroup, scanStartTime |-> NULL]

C7_BatchCompleteness ==
  [][ /\ \A n \in 1..Len(hist'.notFound) :
           InSeq(<< "Group not found", hist'.notFound[n] >>, scanErrors')
      /\ \A n \in 1..Len(hist'.opened) :
           /\ hist'.opened[n].groupName = TARGET_GROUPS[hist'.startIndex + n]
           /\ (n < Len(hist'.opened) \/ hist'.ended) =>
                \/ InSeq(hist'.opened[n].groupName, hist'.notFound)
                \/ InSeq(hist'.opened[n].groupName, hist'.extracted)
      /\ (~hist.ended /\ hist'.ended) =>
           IF hist'.stoppedAt < NumGroups
             THEN isPaused \/ isShuttingDown
             ELSE hist'.startIndex + Len(hist'.opened) = NumGroups ]_vars

C7_Witness ==
  /\ hist.ended
  /\ hist.startIndex = 0
  /\ hist.stoppedAt >= NumGroups
  /\ hist.notFound = << TARGET_GROUPS[2] >>
  /\ scanErrors = << << "Group not found", TARGET_GROUPS[2] >> >>
  /\ hist.extracted = << TARGET_GROUPS[1], TARGET_GROUPS[3], TARGET_GROUPS[4] >>

\* C8: a timer tick or 'scan' command that arrives while isPaused is set starts
\* no scan, makes no open or extract call, and leaves the checkpoint (memory
\* and file), scanErrors, the counters and processedMessages as they were.
C8_PausedTriggerIsNoOp ==
  [][ (isPaused /\ TriggerStep) =>
        UNCHANGED << isScanning, scans, scansStarted, hist, scanState, stateFile,
                     scanErrors, totalMatchesAllTime, lastScanTime, currentScanProgress,
                     processedMessages, dailySummary, groupScanStatus, logFile,
                     notifications >> ]_vars

C8_Witness ==
  /\ refusal = "paused"
  /\ isPaused
  /\ scans = << >>
  /\ timerArmed
  /\ ~isShuttingDown

\* C9: the process does not close the page and the browser or exit while a
\* scan is still in progress.
C9_DrainBeforeExit ==
  shutdownPc \in { "close", "exit" } => scans = << >>

\* a scanErrors entry names the conversation
ErrorNames(name) == \E n \in 1..Len(scanErrors) : scanErrors[n][2] = name

\* C11: a conversation whose extraction hit an error thrown by the page has an
\* entry in scanErrors once its processing has ended, and the batch goes on to
\* the next conversation.
C11_ExtractionFailureRecorded ==
  \A n \in 1..Len(hist.extracted) :
    (hist.extracted[n] \in broken /\ (n < Len(hist.extracted) \/ hist.ended)) =>
      ErrorNames(hist.extracted[n])

\* the latest scan cycle has returned
CycleReturned == scans = << >> /\ hist.cycle > 0 /\ hist.ended

\* the latest scan cycle did not find a conversation, failed to extract from one,
\* or ran while no write to the disk succeeds
CycleHadFailure ==
  \/ hist.notFound # << >>
  \/ \E n \in 1..Len(hist.extracted) : hist.extracted[n] \in broken
  \/ ~diskOk

\* C13: once a scan cycle with a conversation not found, a failed extraction or
\* failed writes has returned, no scan is in progress and, while the monitor is not
\* shutting down, the timer is armed; a timer tick in such a state that is neither
\* paused nor shutting down starts the next scan cycle.
C13_FailedCycleDoesNotHalt ==
  [][ /\ (CycleReturned' /\ CycleHadFailure') =>
           /\ ~isScanning'
           /\ ~isShuttingDown' => timerArmed'
      /\ ( /\ CycleReturned /\ CycleHadFailure
           /\ ~isPaused /\ ~isShuttingDown
           /\ scansStarted < MaxScans
           /\ TimerTick ) =>
           /\ isScanning'
           /\ scans' # << >>
           /\ hist'.cycle = hist.cycle + 1 ]_vars

\* a second cycle runs after a first cycle with a failed extraction has returned
C13_Witness ==
  /\ broken # {}
  /\ hist.cycle = 2
  /\ isScanning
  /\ ~scans[1].awaited
  /\ lastScanTime # NULL

\* the number of daily summaries for the date key d in a log
SummaryCount(log, d) ==
  Cardinality({ n \in 1..Len(log) : log[n].kind = "summary" /\ log[n].date = d })

\* C14: a scan that starts on a date other than the aggregate's date key, with
\* matches counted, starts one flush of the aggregate; when that flush has been
\* appended the log holds the summary of that date key once, and the aggregate has
\* zero counts under the current date.
C14_RolloverFlushesOnce ==
  [][ /\ ( /\ scansStarted' = scansStarted + 1
           /\ DateString(now) # dailySummary.date
           /\ dailySummary.totalMatches > 0 ) =>
           flushes' = Append(flushes, [by |-> "rollover", text |-> SummaryText(dailySummary)])
      /\ \A n \in 1..Len(flushes) :
           (diskOk /\ flushes[n].by = "rollover" /\ FlushDone(n)) =>
             /\ SummaryCount(logFile', flushes[n].text.date) = 1
             /\ dailySummary' = FreshSummary(now)
             /\ dailySummary'.date # flushes[n].text.date ]_vars

\* C15: a match counted by a scan, with no flush of the aggregate in flight, is
\* counted under the date on which the scan made its rollover check, also when the
\* aggregate was empty at that check.
C15_CountedUnderCurrentDate ==
  [][ (dailySummary'.totalMatches > dailySummary.totalMatches /\ flushes = << >>) =>
        dailySummary'.date = DateString(hist.startedAt) ]_vars

\* the tests of the keyword against the text that have been made
TestsOf(keyword, text) == { c \in evals.calls : c.keyword = keyword /\ c.text = text }

\* C16: the keyword startup matches the texts "startup", "startups" and
\* "a startup idea", in any case of letters, and matches neither "mystartup" nor
\* "startuptime".
C16_StartupWordForms ==
  /\ \A text \in { T_startup, T_startups, T_a_startup_idea, T_STARTUP, T_Startups } :
       \A c \in TestsOf(KW_startup, text) : c.test
  /\ \A text \in { T_mystartup, T_startuptime, T_MyStartup } :
       \A c \in TestsOf(KW_startup, text) : ~c.test

\* the keyword occurs somewhere in the text, compared without case
Contains(keyword, text) == \E p \in 1..Len(text) : OccursAt(keyword, text, p)

\* the keyword occurs in the text with no letter, digit or underscore next to it
ContainsWord(keyword, text) ==
  \E p \in 1..Len(text) :
    /\ OccursAt(keyword, text, p)
    /\ p = 1 \/ ~IsWordChar(text[p - 1])
    /\ p + Len(keyword) > Len(text) \/ ~IsWordChar(text[p + Len(keyword)])

\* C17: a keyword on the bare-substring list matches exactly the texts that
\* contain it, compared without case, also in the middle of a word; a keyword not
\* on the list matches exactly the texts that contain it between word boundaries.
C17_BareListIsSubstringMatch ==
  \A c \in evals.calls :
    c.test = IF c.keyword \in { KW_insta, KW_I }
               THEN Contains(c.keyword, c.text)
               ELSE ContainsWord(c.keyword, c.text)

\* insta has been found inside the word Instagram
C17_Witness ==
  \E c \in evals.calls : c.keyword = KW_insta /\ c.text = T_instagram /\ c.test

\* the notifications ns are those the claim asks for the matches ms of a cycle
NotifiedAsBatched(ns, ms) ==
  \A name \in Groups :
    LET mine == MatchesOf(ms, name)
        sent == { i \in 1..Len(ns) : ns[i].groupName = name }
    IN IF mine = << >> THEN sent = {}
       ELSE /\ Cardinality(sent) = 1
            /\ \A i \in sent :
                 /\ ns[i].matchCount = Len(mine)
                 /\ ns[i].displayMatches = SubSeq(mine, 1, Min(Len(mine), 3))
                 /\ ns[i].more = IF Len(mine) > 3 THEN Len(mine) - 3 ELSE 0

\* C18: when the batch loop of a cycle has ended, there is one notification for
\* each conversation with matches in the cycle and none for the others; it shows
\* the first three matches at most and carries the number of further matches
\* exactly when there are more than three.
C18_OneNotificationPerConversation ==
  \A k \in 1..Len(scans) :
    scans[k].pc = "saveFinal" => NotifiedAsBatched(notifications, scans[k].allMatches)

\* a cycle has ended with four matches in one conversation, one in another and
\* none in a third that was scanned
C18_Witness ==
  /\ scans # << >>
  /\ scans[1].pc = "saveFinal"
  /\ Len(MatchesOf(scans[1].allMatches, TARGET_GROUPS[1])) > 3
  /\ Len(MatchesOf(scans[1].allMatches, TARGET_GROUPS[2])) = 1
  /\ InSeq(TARGET_GROUPS[batchSize], hist.extracted)
  /\ Len(notifications) = 2

\* C19: a message emitted by one call and submitted again to the next call, made
\* more than one hour later while its entry is still in processedMessages, is
\* emitted by that call, and its entry then carries the time of that call.
C19_StaleEntryIsNew ==
  \A c1, c2 \in evals.calls :
    (c2.call = c1.call + 1 /\ c2.at - c1.at > OneHour) =>
      \A a \in 1..Len(c1.matches), b \in 1..Len(c2.messages) :
        SameMessage(c1.matches[a], c2.messages[b]) =>
          /\ RecordsFor(c2, c2.messages[b]) # {}
          /\ c2.call = evals.count =>
               LET id == generateMessageId(c2.messages[b].groupName, c2.messages[b].sender,
                                           c2.messages[b].text, c2.messages[b].timestamp)
               IN id \in DOMAIN processedMessages /\ processedMessages[id] = c2.at

\* the step begins a batch: a scan passes the head of its batch loop
BatchBegins ==
  \E k \in 1..Len(scans') :
    /\ scans'[k].pc = "saveBatch"
    /\ k > Len(scans) \/ scans[k].pc # "saveBatch"

\* C20: no batch begins while isPaused is set, the conversations opened are those
\* of the batches begun, and a cycle that ends has opened every conversation of
\* each batch it began, also when the pause was requested during the batch; the
\* pause and resume commands leave isScanning and the running scan as they are.
C20_PauseActsAtBatchBoundary ==
  [][ /\ BatchBegins => ~isPaused
      /\ \A k \in 1..Len(scans'), n \in 1..Len(hist'.opened) :
           GroupIndex(hist'.opened[n].groupName) < scans'[k].i + batchSize
      /\ hist'.ended =>
           Len(hist'.opened) + Len(hist'.skipped)
             = Min(hist'.stoppedAt, NumGroups) - hist'.startIndex
      /\ (CliPause \/ CliResume) => UNCHANGED << isScanning, scans, hist >> ]_vars

\* a cycle paused during its first batch has ended after that batch, all of its
\* conversations opened and none of the next batch
C20_Witness ==
  /\ isPaused /\ ~isShuttingDown
  /\ hist.ended
  /\ hist.startIndex = 0
  /\ hist.stoppedAt = batchSize
  /\ Len(hist.opened) = batchSize
  /\ scans = << >>

\* C12: a shutdown begun by the uncaughtException / unhandledRejection handler
\* happens only after the restart attempts of startMonitoring are exhausted.
C12_FatalRestartsBeforeShutdown ==
  fatal => retryCount >= maxRetries

\* the positions of a scan between the start of an open and the end of the
\* clearSearch in the finally of processGroup
ProcessingPcs == { "open", "saveGroup", "extract", "log", "clear1" }

\* the n-th conversation opened in the latest cycle has been dealt with
Finished(n) ==
  \/ InSeq(hist.opened[n].groupName, hist.notFound)
  \/ InSeq(hist.opened[n].groupName, hist.extracted)

\* C21: at most one conversation is being processed and at most one is marked
\* in groupScanStatus; the conversations are opened in the order of TARGET_GROUPS,
\* and when the open of one starts, each one opened before it has been dealt with
\* and is no longer marked.
C21_StrictlySequential ==
  /\ Cardinality({ k \in 1..Len(scans) : scans[k].pc \in ProcessingPcs }) <= 1
  /\ Cardinality({ name \in Groups : groupScanStatus[name] }) <= 1
  /\ \A n \in 1..Len(hist.opened) :
       hist.opened[n].groupName = TARGET_GROUPS[hist.startIndex + n]
  /\ \A k \in 1..Len(scans) :
       scans[k].pc = "open" =>
         /\ \A n \in 1..Len(hist.opened) : Finished(n)
         /\ \A name \in Groups : groupScanStatus[name] <=> name = GroupAt(scans[k])

\* the open of the third conversation of a batch is under way after the first two
\* have been dealt with
C21_Witness ==
  /\ scans # << >>
  /\ scans[1].pc = "open"
  /\ scans[1].j = 2
  /\ Len(hist.opened) = 2
  /\ groupScanStatus[TARGET_GROUPS[batchSize]]

\* C22: between two consecutive opens of a cycle at least one clearSearch has
\* ended, whether the earlier conversation gave matches, gave no message, failed
\* in its extraction or was not found.
C22_ClearBetweenOpens ==
  /\ \A n \in 2..Len(hist.opened) : hist.opened[n].clears > hist.opened[n - 1].clears
  /\ \A k \in 1..Len(scans) :
       (scans[k].pc = "open" /\ hist.opened # << >>) =>
         hist.clears > hist.opened[Len(hist.opened)].clears

\* the conversation after one that was not found and the conversation of the
\* next batch, after one whose extraction failed, have been opened
C22_Witness ==
  /\ Len(hist.opened) = NumGroups
  /\ InSeq(hist.opened[2].groupName, hist.notFound)
  /\ hist.opened[batchSize].groupName \in broken
  /\ InSeq(hist.opened[1].groupName, hist.extracted)

\* C23: the open of a conversation starts only when the conversation is not
\* marked in groupScanStatus; a conversation found marked is skipped with an
\* empty result and without an open, an extraction or a match of its messages.
C23_InFlightSkip ==
  [][ /\ \A k \in 1..Len(scans) :
           (k <= Len(scans') /\ scans[k].pc # "open" /\ scans'[k].pc = "open") =>
             ~groupScanStatus[GroupAt(scans'[k])]
      /\ (hist'.cycle = hist.cycle /\ hist'.skipped # hist.skipped) =>
           /\ hist'.opened = hist.opened
           /\ hist'.extracted = hist.extracted
           /\ UNCHANGED << processedMessages, dailySummary, logFile, scanErrors >>
           /\ \E k \in 1..Len(scans') :
                /\ scans'[k].pc = "clear1"
                /\ scans'[k].res = << >>
                /\ GroupAt(scans'[k]) = hist'.skipped[Len(hist'.skipped)] ]_vars

\* the marked conversation has been skipped and the one after it opened
C23_Witness ==
  /\ hist.skipped = << MarkedAtStart >>
  /\ Len(hist.opened) = 2
  /\ hist.opened[2].groupName = TARGET_GROUPS[batchSize]

\* C24: when no scan is in progress no conversation is marked in groupScanStatus,
\* whether the conversations were matched, not found or failed in their
\* extraction, and no conversation is skipped as marked in any cycle.
C24_MarksReleased ==
  /\ (scans = << >> /\ ~isScanning) => \A name \in Groups : ~groupScanStatus[name]
  /\ hist.skipped = << >>

\* a second cycle has opened every conversation after a cycle with a conversation
\* not found and one whose extraction failed
C24_Witness ==
  /\ scans = << >> /\ ~isScanning
  /\ hist.cycle = 2
  /\ hist.ended
  /\ Len(hist.opened) = NumGroups
  /\ hist.notFound # << >>
  /\ \E n \in 1..Len(hist.extracted) : hist.extracted[n] \in broken

\* C25: when findKeywordMatches has returned, processedMessages holds no entry
\* set more than one hour before the call, and it holds the entry of every match
\* emitted at most one hour before the call.
C25_BoundedCache ==
  /\ \A id \in DOMAIN processedMessages : processedMessages[id] >= now - OneHour
  /\ \A c \in evals.calls :
       c.at >= now - OneHour =>
         \A n \in 1..Len(c.matches) :
           /\ c.matches[n].messageId \in DOMAIN processedMessages
           /\ processedMessages[c.matches[n].messageId] = c.at

\* the entry of a match emitted more than one hour before the latest call has
\* been deleted, and no later call has set it again
C25_Witness ==
  \E c \in evals.calls :
    /\ c.matches # << >>
    /\ c.at < now - OneHour
    /\ c.matches[1].messageId \notin DOMAIN processedMessages

\* the index at which the first scan of a process started now would begin
RestartIndex ==
  StartIndex(loadScanState([lastProcessedIndex |-> 0, lastSuccessfulGroup |-> NoGroup,
                            scanStartTime |-> NULL], stateFile))

\* C26: while the batch loop of a cycle runs and the disk takes the writes, the
\* index a restart would begin at is the start of a batch of the cycle, is not after
\* the batch in progress - so no conversation still to be processed lies before
\* it - and is at most one batch behind it.
C26_CheckpointNeverAhead ==
  \A k \in 1..Len(scans) :
    (diskOk /\ ~hist.ended) =>
      /\ RestartIndex <= scans[k].i
      /\ RestartIndex >= scans[k].i - batchSize
      /\ scans[k].pc # "saveBatch" => RestartIndex = scans[k].i
      /\ RestartIndex = 0 \/ (RestartIndex - hist.startIndex) % batchSize = 0

\* the second batch is in progress with its start index on the disk
C26_Witness ==
  /\ diskOk /\ ~hist.ended
  /\ scans # << >>
  /\ scans[1].i = batchSize
  /\ scans[1].pc = "extract"
  /\ hist.startIndex = 0
  /\ RestartIndex = batchSize

\* C27: when the batch loop of the first cycle of a run in which no write to
\* the disk succeeds has ended without a pause or a shutdown, every conversation
\* from the start index on was opened, every one that was found was extracted,
\* every extracted conversation that shows messages has its matches in the
\* cycle's result, the result is notified and counted in the aggregate and in
\* the session total, and nothing was recorded as a processing error.
C27_PersistenceFailuresAbsorbed ==
  \A k \in 1..Len(scans) :
    ( /\ ~diskOk
      /\ scans[k].pc = "saveFinal"
      /\ hist.cycle = 1
      /\ hist.stoppedAt >= NumGroups ) =>
      /\ [n \in 1..Len(hist.opened) |-> hist.opened[n].groupName]
           = SubSeq(TARGET_GROUPS, hist.startIndex + 1, NumGroups)
      /\ hist.extracted
           = SelectSeq(SubSeq(TARGET_GROUPS, hist.startIndex + 1, NumGroups),
                       LAMBDA name : name \notin absent)
      /\ \A n \in 1..Len(hist.extracted) :
           dom[hist.extracted[n]] # << >> =>
             MatchesOf(scans[k].allMatches, hist.extracted[n]) # << >>
      /\ NotifiedAsBatched(notifications, scans[k].allMatches)
      /\ dailySummary.totalMatches = Len(scans[k].allMatches)
      /\ totalMatchesAllTime = Len(scans[k].allMatches)
      /\ \A n \in 1..Len(scanErrors) : scanErrors[n][1] # "Processing error"
      /\ logFile = << >>

\* a cycle over all conversations has ended with matches notified while no write
\* to the disk succeeded
C27_Witness ==
  /\ ~diskOk /\ scans # << >> /\ scans[1].pc = "saveFinal"
  /\ hist.cycle = 1 /\ hist.startIndex = 0 /\ hist.stoppedAt >= NumGroups
  /\ Len(hist.extracted) = NumGroups
  /\ scans[1].allMatches # << >>
  /\ notifications # << >>
  /\ stateFile = << >> /\ logFile = << >>

\* C28: startMonitoring counts at most three failed attempts and begins an
\* attempt only while fewer than three have failed; the k-th failure, k < 3, is
\* followed by a wait of 5000 * 2^(k-1) ms (5000, then 10000) whose end alone
\* starts the next attempt; the third failure starts no wait and no attempt, and
\* leaves the monitor shutting down by the shutdown that prints the summary.
C28_BoundedRestart ==
  [][ /\ retryCount' <= 3
      /\ mainPc' = "init" => retryCount' < 3
      /\ backoffDelays' = SubSeq(<< 5000, 10000 >>, 1, Min(retryCount', 2))
      /\ (mainPc = "init" /\ retryCount' = retryCount + 1 /\ retryCount' < 3) =>
           /\ mainPc' = "backoff"
           /\ shutdownPc' = shutdownPc
      /\ (mainPc = "backoff" /\ mainPc' # "backoff") =>
           /\ now' - now = (IF retryCount = 1 THEN 5000 ELSE 10000)
           /\ retryCount' = retryCount
           /\ mainPc' = IF isShuttingDown THEN "done" ELSE "init"
      /\ (mainPc' = "init" /\ mainPc # "init") => mainPc = "backoff"
      /\ (mainPc = "init" /\ retryCount' = 3) =>
           /\ retryCount = 2
           /\ mainPc' \in { "giveUp", "done" }
           /\ isShuttingDown'
           /\ shutdownPc' \in { "daily", "save", "close" }
           /\ ~isShuttingDown => mainPc' = "giveUp"
      /\ mainPc \in { "giveUp", "done" } => mainPc' = mainPc ]_vars

\* three attempts have failed, with waits of 5000 and 10000 ms between them, and
\* the shutdown has begun
C28_Witness ==
  /\ retryCount = 3 /\ mainPc = "giveUp"
  /\ backoffDelays = << 5000, 10000 >>
  /\ now = StartNow + 15000
  /\ isShuttingDown /\ shutdownPc # "none"

C30_TimerAfterInitialScan ==
  [][ /\ timerArmed' =>
           /\ mainPc' = "loop"
           /\ scansStarted' >= 1
           /\ \A k \in 1..Len(scans') : ~scans'[k].awaited
      /\ (~timerArmed /\ timerArmed') =>
           /\ mainPc = "startupScan"
           /\ \E k \in 1..Len(scans) :
                /\ scans[k].awaited
                /\ scans[k].pc = "saveFinal"
                /\ scans' = RemoveAt(scans, k)
      /\ TimerTick =>
           /\ timerArmed
           /\ mainPc = "loop"
           /\ \A k \in 1..Len(scans) : ~scans[k].awaited
           /\ (isShuttingDown \/ isPaused) =>
                UNCHANGED << scans, scansStarted, isScanning, hist, scanState >>
           /\ (~isShuttingDown /\ ~isPaused /\ ~isScanning /\ scansStarted < MaxScans) =>
                /\ scansStarted' = scansStarted + 1
                /\ Len(scans') = Len(scans) + 1
                /\ ~scans'[Len(scans')].awaited
                /\ isScanning' ]_vars

\* the startup scan has returned, the timer exists, and a second scan, which
\* runMonitoringLoop does not await, is running
C30_Witness ==
  /\ timerArmed /\ mainPc = "loop"
  /\ scansStarted = 2 /\ hist.cycle = 2
  /\ Len(scans) = 1 /\ ~scans[1].awaited /\ scans[1].pc = "extract"
  /\ refusal = "none"
  /\ ~isPaused /\ ~isShuttingDown

\* the calls of fn that threw before the call of retryWithBackoff ended
FailedBefore(c) ==
  IF \E f \in 1..c.maxRetries : ~c.tries[f].threw
    THEN (CHOOSE f \in 1..c.maxRetries :
            ~c.tries[f].threw /\ \A g \in 1..(f - 1) : c.tries[g].threw) - 1
    ELSE c.maxRetries

\* the events of a call in which fn fails `failed` times: each call of fn ends
\* before anything else happens, each failure is followed by its wait
RECURSIVE SequentialEvents(_, _, _, _)
SequentialEvents(c, i, failed, acc) ==
  IF i > failed
    THEN IF failed < c.maxRetries
           THEN acc \o << [e |-> "call", n |-> i], [e |-> "returned", n |-> i] >>
           ELSE acc
    ELSE SequentialEvents(c, i + 1, failed,
                          acc \o << [e |-> "call", n |-> i], [e |-> "threw", n |-> i],
                                    [e |-> "wait", n |-> c.baseDelay * 2 ^ (i - 1)] >>)

\* C31: retryWithBackoff(fn, n, base) calls fn at most n times, one call after
\* the end of the one before; the first call that does not throw ends it with
\* that call's value; the i-th failed call, counted from 0, is followed by a
\* wait of base * 2^i; when all n calls throw, it throws the error of the n-th.
C31_RetryWithBackoff ==
  \A c \in evals.calls :
    LET r == c.result
        failed == FailedBefore(c)
    IN /\ r.calls <= c.maxRetries
       /\ r.events = SequentialEvents(c, 1, failed, << >>)
       /\ IF failed < c.maxRetries
            THEN /\ ~r.threw
                 /\ r.calls = failed + 1
                 /\ r.value = c.tries[failed + 1].value
            ELSE /\ r.threw
                 /\ r.calls = c.maxRetries
                 /\ c.maxRetries > 0 => r.error = c.tries[c.maxRetries].error

\* three calls were allowed: the first two threw and were followed by waits of
\* 1000 and 2000 ms, the third returned
C31_Witness ==
  \E c \in evals.calls :
    /\ c.maxRetries = 3 /\ c.baseDelay = 1000
    /\ c.tries[1].threw /\ c.tries[2].threw /\ ~c.tries[3].threw
    /\ c.result.calls = 3 /\ ~c.result.threw /\ c.result.value
    /\ SelectSeq(c.result.events, LAMBDA ev : ev.e = "wait")
         = << [e |-> "wait", n |-> 1000], [e |-> "wait", n |-> 2000] >>

\* the sum of the match counts the notifications carry
RECURSIVE NotifiedCount(_)
NotifiedCount(ns) ==
  IF ns = << >> THEN 0 ELSE ns[1].matchCount + NotifiedCount(Tail(ns))

\* C32: a cycle starts with no match collected; the end of a batch appends the
\* matches the batch returned to the cycle's matches and adds their number to
\* totalMatchesAllTime, and no other step of the cycle changes either; when the
\* batch loop has ended, the notifications are those of exactly the cycle's
\* matches, each counted once; totalMatchesAllTime never decreases.
C32_DispatchedAndCountedOnce ==
  [][ /\ totalMatchesAllTime' >= totalMatchesAllTime
      /\ Len(scans') > Len(scans) =>
           /\ scans'[Len(scans')].allMatches = << >>
           /\ totalMatchesAllTime' = totalMatchesAllTime
      /\ Len(scans') < Len(scans) => totalMatchesAllTime' = totalMatchesAllTime
      /\ Len(scans') = Len(scans) =>
           \A k \in 1..Len(scans) :
             /\ totalMatchesAllTime' - Len(scans'[k].allMatches)
                  = totalMatchesAllTime - Len(scans[k].allMatches)
             /\ IF BatchWaitDone(k)
                  THEN scans'[k].allMatches = scans[k].allMatches \o scans[k].batchResults
                  ELSE scans'[k].allMatches = scans[k].allMatches
      /\ \A k \in 1..Len(scans') :
           scans'[k].pc = "saveFinal" =>
             /\ NotifiedAsBatched(notifications', scans'[k].allMatches)
             /\ NotifiedCount(notifications') = Len(scans'[k].allMatches) ]_vars

\* the first cycle has ended with matches from both batches, all of them
\* notified and counted in the session total
C32_Witness ==
  /\ scans # << >> /\ scans[1].pc = "saveFinal"
  /\ hist.cycle = 1 /\ hist.startIndex = 0 /\ hist.stoppedAt >= NumGroups
  /\ Len(scans[1].allMatches) = NumGroups
  /\ totalMatchesAllTime = NumGroups
  /\ NotifiedCount(notifications) = NumGroups

\* the step ends the batch loop of a cycle
LoopEnds == hist'.ended /\ (~hist.ended \/ hist'.cycle # hist.cycle)

\* C33: when the batch loop of a cycle ends before the end of the conversation
\* list, because a pause or a shutdown was seen at a batch boundary, the cycle
\* neither updates lastScanTime nor resets lastProcessedIndex, which stays the
\* start index of the last batch the cycle began (the index the cycle started
\* at when it began none); only a cycle whose loop went through the list does.
C33_OnlyFullPassCompletes ==
  [][ (LoopEnds /\ hist'.stoppedAt < NumGroups) =>
        /\ lastScanTime' = lastScanTime
        /\ scanState'.lastProcessedIndex =
             IF hist'.stoppedAt = hist'.startIndex THEN hist'.startIndex
             ELSE hist'.stoppedAt - batchSize ]_vars

\* C34: a scan cycle that ends, by its last write or by the catch of an error
\* thrown while it notified, leaves isScanning false and currentScanProgress
\* null; so whenever no cycle is running isScanning is false, and a timer tick
\* that then finds the monitor neither paused nor shutting down starts a cycle.
C34_ScanReturnsToIdle ==
  [][ /\ Len(scans') < Len(scans) =>
           /\ ~isScanning'
           /\ currentScanProgress' = NULL
      /\ scans' = << >> => ~isScanning'
      /\ ( /\ scans = << >> /\ TimerTick
           /\ ~isPaused /\ ~isShuttingDown /\ scansStarted < MaxScans ) =>
           /\ scans' # << >>
           /\ isScanning'
           /\ hist'.cycle = hist.cycle + 1 ]_vars

\* the first cycle ended in the catch of scanAllGroups and the second is running
C34_Witness ==
  /\ hist.cycle = 2 /\ scansStarted = 2
  /\ scans # << >> /\ isScanning /\ scans[1].pc = "extract"
  /\ totalMatchesAllTime > 0
  /\ lastScanTime = NULL

\* C35: whenever a scan cycle has ended and no scan is in progress, the
\* lastProcessedIndex in memory is 0.
C35_FreshStartAfterCycle ==
  (hist.cycle > 0 /\ hist.ended /\ scans = << >> /\ ~isScanning) =>
    scanState.lastProcessedIndex = 0

\* C36: when the append of a daily summary has ended and dailySummary is
\* reset, the matches the reset removes from dailySummary are matches the
\* appended text counts: no match counted after the text was computed is
\* removed by the reset.
C36_NoCountLostAtReset ==
  [][ \A n \in 1..Len(flushes) :
        FlushDone(n) =>
          /\ dailySummary.totalMatches - dailySummary'.totalMatches
               <= flushes[n].text.totalMatches
          /\ \A key \in DOMAIN dailySummary.matches :
               \/ key \in DOMAIN dailySummary'.matches
               \/ /\ key \in DOMAIN flushes[n].text.matches
                  /\ dailySummary.matches[key] <= flushes[n].text.matches[key] ]_vars

\* the sum of the values of a map of counts
RECURSIVE SumOfCounts(_)
SumOfCounts(counts) ==
  IF DOMAIN counts = {} THEN 0
  ELSE LET key == CHOOSE x \in DOMAIN counts : TRUE
       IN counts[key] + SumOfCounts([x \in DOMAIN counts \ {key} |-> counts[x]])

\* the count of an entry of a map of counts, 0 when there is no entry
CountOf(counts, key) == IF key \in DOMAIN counts THEN counts[key] ELSE 0

\* the matches of ms for the conversation and keyword of key
WithKey(ms, key) ==
  SelectSeq(ms, LAMBDA m : << m.groupName, m.matchedKeyword >> = key)

\* C37: in every state dailySummary.totalMatches is the sum of the counts in
\* dailySummary.matches, and so it is in every summary text to be appended;
\* the evaluation of an extraction adds to totalMatches the number of matches
\* it returned and to each entry the number of returned matches with the
\* entry's conversation and keyword.
C37_AggregateConsistent ==
  [][ /\ dailySummary'.totalMatches = SumOfCounts(dailySummary'.matches)
      /\ \A n \in 1..Len(flushes') :
           flushes'[n].text.totalMatches = SumOfCounts(flushes'[n].text.matches)
      /\ \A k \in 1..Len(scans) :
           ExtractDone(k) =>
             LET emitted == IF scans'[k].pc = "log" THEN scans'[k].matches ELSE << >>
             IN /\ dailySummary'.totalMatches = dailySummary.totalMatches + Len(emitted)
                /\ \A key \in DOMAIN dailySummary.matches \cup DOMAIN dailySummary'.matches :
                     CountOf(dailySummary'.matches, key)
                       = CountOf(dailySummary.matches, key) + Len(WithKey(emitted, key)) ]_vars

\* four matches of one keyword in the first conversation and one in the second
\* are counted, in two entries
C37_Witness ==
  /\ dailySummary.totalMatches = 5
  /\ Cardinality(DOMAIN dailySummary.matches) = 2
  /\ CountOf(dailySummary.matches, << TARGET_GROUPS[1], KW_vc >>) = 4
  /\ CountOf(dailySummary.matches, << TARGET_GROUPS[2], KW_vc >>) = 1

\* C38: every line entered runs one handler: the operation of a command is
\* invoked once for the line, whatever lines were entered before.
C38_OneCommandOneOperation ==
  [][ \A command \in Commands : StdinLine(command) => cli'.handled = 1 ]_vars

\* C39: when a processing finds its conversation marked and skips it, the mark
\* is still set afterwards and the skipped invocation goes on to no clearSearch.
C39_SkipLeavesMark ==
  [][ (hist'.cycle = hist.cycle /\ hist'.skipped # hist.skipped) =>
        LET name == hist'.skipped[Len(hist'.skipped)]
        IN /\ groupScanStatus'[name]
           /\ \A k \in 1..Len(scans') :
                (scans'[k].j < BatchLen(scans'[k].i) /\ GroupAt(scans'[k]) = name) =>
                  scans'[k].pc # "clear1" ]_vars

\* the place of a position of enhancedShutdown in its sequence
ShutdownRank(pc) ==
  CASE pc = "none" -> 0 [] pc = "daily" -> 1 [] pc = "save" -> 2
    [] pc = "close" -> 3 [] pc = "exit" -> 4

\* the summaries enhancedShutdown has asked to append
ShutdownFlushes(fs) == SelectSeq(fs, LAMBDA fl : fl.by = "shutdown")

\* C40: the shutdown sequence only moves forward, from the summary to the
\* checkpoint write, the close and the exit, so each of its steps is taken at
\* most once: isShuttingDown and exited are never reset, a summary is asked for
\* by a shutdown only in the step that sets isShuttingDown, and a signal, a
\* quit, a fatal event or the last failed restart that finds the monitor
\* shutting down changes nothing of the sequence.
C40_ShutdownRunsOnce ==
  [][ /\ isShuttingDown => isShuttingDown'
      /\ exited => exited'
      /\ ShutdownRank(shutdownPc') >= ShutdownRank(shutdownPc)
      /\ (shutdownPc # "none") = isShuttingDown
      /\ Len(ShutdownFlushes(flushes')) > Len(ShutdownFlushes(flushes)) =>
           /\ ~isShuttingDown
           /\ Len(ShutdownFlushes(flushes')) = 1
      /\ (pendingWrite' # << >> /\ pendingWrite' # pendingWrite) =>
           /\ pendingWrite = << >>
           /\ shutdownPc \in { "none", "daily" }
      /\ (isShuttingDown /\ (Signal \/ CliQuit \/ FatalEvent \/ InitBrowserFailed)) =>
           UNCHANGED << shutdownPc, flushes, pendingWrite, stateFile, logFile, exited >>
    ]_vars

\* the process has exited after a shutdown that appended one summary and wrote
\* the checkpoint
C40_Witness ==
  /\ exited /\ shutdownPc = "exit" /\ isShuttingDown
  /\ SummaryCount(logFile, DateString(StartNow)) = 1
  /\ stateFile # << >>
  /\ flushes = << >> /\ pendingWrite = << >>

\* C10: a conversation is reported as not found only after OpenRetries failed
\* calls of searchAndOpenGroup, and no open makes more than OpenRetries calls.
C10_NotFoundAfterRetries ==
  \A n \in 1..Len(hist.opened) :
    /\ hist.opened[n].calls <= OpenRetries
    /\ InSeq(hist.opened[n].groupName, hist.notFound) =>
         hist.opened[n].calls = OpenRetries

====
